---- MODULE Spec2Model ----
(***************************************************************************)
(* Model of the DVF transaction pipeline of src/process_dvf.py.            *)
(*                                                                         *)
(* A table (Polars DataFrame / LazyFrame) is a sequence of records, one    *)
(* record per row, one field per column the stages read or write.          *)
(* Columns the stages only carry along (addresses, lot numbers, ...) are   *)
(* not represented.                                                        *)
(*                                                                         *)
(* A nullable cell is <<>> (null) or <<v>> (the value v).  Float64 cells   *)
(* hold exact rationals [num, den] in lowest terms; the model does not     *)
(* represent binary rounding.  Boolean expressions follow Polars' three    *)
(* valued logic, and a filter keeps a row only when its predicate is true. *)
(* A join never matches a key that holds a null (Polars' default), while   *)
(* group_by treats null as a key value of its own.                         *)
(***************************************************************************)
EXTENDS Integers, Sequences, FiniteSets, TLC

VARIABLES
    stage,           \* position of the run in process_dvf / main
    raw,             \* rows of RAW_DVF_PATH, in file order
    df,              \* the table the run currently holds
    prev,            \* the table that entered the stage executed last
    region_mapping,  \* result of load_region_mapping() once it was read
    iris,            \* the IRIS layer once it was read
    error,           \* "" or the name of the exception that ended the run
    parquet          \* <<>> while OUTPUT_PARQUET is absent, else <<table>>

vars == <<stage, raw, df, prev, region_mapping, iris, error, parquet>>

-----------------------------------------------------------------------------
(* Nullable cells and three-valued logic                                   *)

NULL == <<>>
Some(v) == <<v>>
IsNull(c) == c = <<>>

T3 == <<TRUE>>
F3 == <<FALSE>>
N3 == <<>>

And3(a, b) ==
    IF a = F3 \/ b = F3 THEN F3
    ELSE IF a = N3 \/ b = N3 THEN N3
    ELSE T3

Or3(a, b) ==
    IF a = T3 \/ b = T3 THEN T3
    ELSE IF a = N3 \/ b = N3 THEN N3
    ELSE F3

RECURSIVE All3(_)
All3(ps) == IF ps = <<>> THEN T3 ELSE And3(Head(ps), All3(Tail(ps)))

Eq3(a, b) == IF IsNull(a) \/ IsNull(b) THEN N3 ELSE Some(a[1] = b[1])
IsIn3(a, S) == IF IsNull(a) THEN N3 ELSE Some(a[1] \in S)
IsNotNull3(a) == Some(~IsNull(a))

-----------------------------------------------------------------------------
(* Exact rationals standing for Float64 values                             *)

RECURSIVE Gcd(_, _)
Gcd(a, b) == IF b = 0 THEN a ELSE Gcd(b, a % b)

Rat(n, d) ==
    LET Abs(k) == IF k < 0 THEN -k ELSE k
        g == Gcd(Abs(n), Abs(d))
        s == IF d < 0 THEN -1 ELSE 1
    IN  [num |-> s * (n \div g), den |-> s * (d \div g)]

R(n) == [num |-> n, den |-> 1]
RAdd(a, b) ==
    LET g == Gcd(a.den, b.den)
    IN  Rat(a.num * (b.den \div g) + b.num * (a.den \div g), (a.den \div g) * b.den)
RSub(a, b) == RAdd(a, [num |-> -b.num, den |-> b.den])
RMul(a, b) ==
    LET x == Rat(a.num, b.den)
        y == Rat(b.num, a.den)
    IN  Rat(x.num * y.num, x.den * y.den)
RDiv(a, b) == RMul(a, Rat(b.den, b.num))
RLt(a, b) ==
    LET g == Gcd(a.den, b.den)
    IN  a.num * (b.den \div g) < b.num * (a.den \div g)

\* Arithmetic and comparison of nullable Float64 cells: null propagates.
Add3(a, b) == IF IsNull(a) \/ IsNull(b) THEN NULL ELSE Some(RAdd(a[1], b[1]))
Sub3(a, b) == IF IsNull(a) \/ IsNull(b) THEN NULL ELSE Some(RSub(a[1], b[1]))
Mul3(a, b) == IF IsNull(a) \/ IsNull(b) THEN NULL ELSE Some(RMul(a[1], b[1]))
Div3(a, b) == IF IsNull(a) \/ IsNull(b) THEN NULL ELSE Some(RDiv(a[1], b[1]))
Lt3(a, b) == IF IsNull(a) \/ IsNull(b) THEN N3 ELSE Some(RLt(a[1], b[1]))
Gt3(a, b) == Lt3(b, a)
F(n) == Some(R(n))

-----------------------------------------------------------------------------
(* Sequences                                                               *)

Range(s) == {s[i] : i \in 1..Len(s)}
Idx(t) == 1..Len(t)
Min(S) == CHOOSE x \in S : \A y \in S : x <= y
Max(S) == CHOOSE x \in S : \A y \in S : y <= x

\* The rows t[i], i in the index set I, in table order.
RECURSIVE Pick(_, _, _)
Pick(t, I, i) ==
    IF i > Len(t) THEN <<>>
    ELSE (IF i \in I THEN <<t[i]>> ELSE <<>>) \o Pick(t, I, i + 1)
Rows(t, I) == Pick(t, I, 1)

RECURSIVE Flatten(_)
Flatten(ss) == IF ss = <<>> THEN <<>> ELSE Head(ss) \o Flatten(Tail(ss))

\* A join key matches only when none of its columns is null.
NoNull(k) == \A i \in 1..Len(k) : ~IsNull(k[i])
JoinMatch(k1, k2) == NoNull(k1) /\ k1 = k2

-----------------------------------------------------------------------------
(* Raw input: rows of the DVF CSV file                                     *)

\* A well-formed row of a sale of one house; the other rows of the input
\* domain differ from it in a few columns.  bad names the columns whose text
\* cannot be parsed as the type DVF_SCHEMA declares.
BaseRow ==
    [ id_mutation |-> Some("2024-1"),
      date_mutation |-> Some(<<2024, 3, 15>>),
      numero_disposition |-> Some(1),
      nature_mutation |-> Some("Vente"),
      valeur_fonciere |-> F(200000),
      code_commune |-> Some("75101"),
      code_departement |-> Some("75"),
      id_parcelle |-> Some("75101000AB0001"),
      type_local |-> Some("Maison"),
      surface_reelle_bati |-> F(100),
      nombre_pieces_principales |-> Some(4),
      nature_culture |-> Some("sols"),
      nature_culture_speciale |-> NULL,
      longitude |-> F(3),
      latitude |-> Some(Rat(93, 2)),
      bad |-> {} ]

RawRowKinds ==
    { BaseRow,
      [BaseRow EXCEPT !.nature_culture = Some("jardins")],
      [BaseRow EXCEPT !.nature_culture = NULL],
      [BaseRow EXCEPT !.id_parcelle = Some("75101000AB0002"),
                      !.type_local = Some("Appartement"),
                      !.surface_reelle_bati = F(60),
                      !.nombre_pieces_principales = Some(2)],
      [BaseRow EXCEPT !.numero_disposition = Some(2)],
      [BaseRow EXCEPT !.valeur_fonciere = F(300000)],
      [BaseRow EXCEPT !.type_local = Some("Dépendance"),
                      !.surface_reelle_bati = NULL],
      [BaseRow EXCEPT !.id_parcelle = NULL],
      [BaseRow EXCEPT !.id_mutation = NULL],
      [BaseRow EXCEPT !.id_mutation = NULL, !.numero_disposition = Some(2)],
      [BaseRow EXCEPT !.code_departement = Some("99")],
      [BaseRow EXCEPT !.id_mutation = Some("2025-1"),
                      !.date_mutation = Some(<<2025, 1, 10>>),
                      !.valeur_fonciere = F(300000)],
      [BaseRow EXCEPT !.bad = {"valeur_fonciere"}],
      [BaseRow EXCEPT !.bad = {"date_mutation"}],
      [BaseRow EXCEPT !.valeur_fonciere = F(100)],
      [BaseRow EXCEPT !.surface_reelle_bati = F(0)],
      [BaseRow EXCEPT !.latitude = NULL] }

\* Largest number of rows of a raw input file.
MaxRawRows == 2

RECURSIVE SeqsUpTo(_, _)
SeqsUpTo(S, n) ==
    IF n = 0 THEN {<<>>}
    ELSE LET shorter == SeqsUpTo(S, n - 1)
         IN  shorter \cup {Append(t, x) : t \in {u \in shorter : Len(u) = n - 1}, x \in S}

RawInputs == SeqsUpTo(RawRowKinds, MaxRawRows)

-----------------------------------------------------------------------------
(* aggregate_dvf: loading                                                  *)

\* scan_csv(schema=DVF_SCHEMA, ignore_errors=True): a numeric field whose
\* text does not parse becomes null and the row is kept.  date_mutation is
\* read as text.
ScanCell(r, col, cell) == IF col \in r.bad THEN NULL ELSE cell

scan_csv(file) ==
    [i \in Idx(file) |->
        [ id_mutation |-> file[i].id_mutation,
          date_mutation |-> file[i].date_mutation,
          numero_disposition |->
              ScanCell(file[i], "numero_disposition", file[i].numero_disposition),
          nature_mutation |-> file[i].nature_mutation,
          valeur_fonciere |->
              ScanCell(file[i], "valeur_fonciere", file[i].valeur_fonciere),
          code_commune |-> file[i].code_commune,
          code_departement |-> file[i].code_departement,
          id_parcelle |-> file[i].id_parcelle,
          type_local |-> file[i].type_local,
          surface_reelle_bati |->
              ScanCell(file[i], "surface_reelle_bati", file[i].surface_reelle_bati),
          nombre_pieces_principales |->
              ScanCell(file[i], "nombre_pieces_principales",
                       file[i].nombre_pieces_principales),
          nature_culture |-> file[i].nature_culture,
          nature_culture_speciale |-> file[i].nature_culture_speciale,
          longitude |-> ScanCell(file[i], "longitude", file[i].longitude),
          latitude |-> ScanCell(file[i], "latitude", file[i].latitude) ]]

\* str.to_date("%Y-%m-%d") is strict: one text that is no such date makes
\* the query fail when it is collected.
to_date_fails(file) == \E i \in Idx(file) : "date_mutation" \in file[i].bad

-----------------------------------------------------------------------------
(* aggregate_dvf: the lazy stages                                          *)

fill_null(c, v) == IF IsNull(c) THEN Some(v) ELSE c

fill_nature_culture_nulls(t) ==
    [i \in Idx(t) |->
        [t[i] EXCEPT !.nature_culture = fill_null(@, "unknown"),
                     !.nature_culture_speciale = fill_null(@, "unknown")]]

\* The cells of row r in the columns cols: its key in a group_by or a join.
Key(r, cols) == [n \in 1..Len(cols) |-> r[cols[n]]]

\* Index of the first row of t whose group key equals k (group_by: nulls are
\* a key value like any other).
first_of_group(t, cols, k) == Min({j \in Idx(t) : Key(t[j], cols) = k})

dedup_cols ==
    <<"id_mutation", "numero_disposition", "id_parcelle", "nature_mutation">>

\* Mutant: the join back matches null keys.
first_nature_culture_null_keys(t, r) ==
    t[first_of_group(t, dedup_cols, Key(r, dedup_cols))].nature_culture

\* group_by(group_cols).agg(first) joined back with how="left".
first_nature_culture(t, r) ==
    IF NoNull(Key(r, dedup_cols))
    THEN t[first_of_group(t, dedup_cols, Key(r, dedup_cols))].nature_culture
    ELSE NULL

\* Mutant: every line is kept.
remove_duplicate_lines_none(t) == t

remove_duplicate_lines(t) ==
    LET keep(r) == Eq3(r.nature_culture, first_nature_culture(t, r)) = T3
    IN  SelectSeq(t, keep)

dependency_cols ==
    <<"id_mutation", "numero_disposition", "id_parcelle",
      "nature_culture", "nature_culture_speciale", "nature_mutation">>

\* Mutant: the flag is computed over the whole disposition.
has_dependency_of_disposition(t, r) ==
    IF NoNull(Key(r, dependency_cols))
    THEN Some(\E j \in Idx(t) :
                 /\ t[j].id_mutation = r.id_mutation
                 /\ t[j].numero_disposition = r.numero_disposition
                 /\ Eq3(t[j].type_local, Some("Dépendance")) = T3)
    ELSE NULL

\* (type_local == "Dépendance").any() over the group; any() ignores nulls.
has_dependency(t, r) ==
    IF NoNull(Key(r, dependency_cols))
    THEN Some(\E j \in Idx(t) :
                 /\ Key(t[j], dependency_cols) = Key(r, dependency_cols)
                 /\ Eq3(t[j].type_local, Some("Dépendance")) = T3)
    ELSE NULL

add_dependency(t) ==
    [i \in Idx(t) |->
        [ id_mutation |-> t[i].id_mutation,
          date_mutation |-> t[i].date_mutation,
          numero_disposition |-> t[i].numero_disposition,
          nature_mutation |-> t[i].nature_mutation,
          valeur_fonciere |-> t[i].valeur_fonciere,
          code_commune |-> t[i].code_commune,
          code_departement |-> t[i].code_departement,
          id_parcelle |-> t[i].id_parcelle,
          type_local |-> t[i].type_local,
          surface_reelle_bati |-> t[i].surface_reelle_bati,
          nombre_pieces_principales |-> t[i].nombre_pieces_principales,
          nature_culture |-> t[i].nature_culture,
          nature_culture_speciale |-> t[i].nature_culture_speciale,
          longitude |-> t[i].longitude,
          latitude |-> t[i].latitude,
          has_dependency |-> has_dependency(t, t[i]) ]]

SaleNatures == {"Vente", "Vente en l'état futur d'achèvement", "Adjudication"}
ResidentialTypes == {"Maison", "Appartement"}

\* Mutant: a declared price of exactly 100 is accepted.
wanted_from_100(r) ==
    All3(<< IsIn3(r.nature_mutation, SaleNatures),
            IsIn3(r.type_local, ResidentialTypes),
            Gt3(r.valeur_fonciere, F(99)),
            Gt3(r.surface_reelle_bati, F(0)),
            IsNotNull3(r.surface_reelle_bati),
            IsNotNull3(r.latitude),
            IsNotNull3(r.longitude) >>)

wanted(r) ==
    All3(<< IsIn3(r.nature_mutation, SaleNatures),
            IsIn3(r.type_local, ResidentialTypes),
            Gt3(r.valeur_fonciere, F(100)),
            Gt3(r.surface_reelle_bati, F(0)),
            IsNotNull3(r.surface_reelle_bati),
            IsNotNull3(r.latitude),
            IsNotNull3(r.longitude) >>)

drop_unwanted_values(t) ==
    LET keep(r) == wanted(r) = T3
    IN  SelectSeq(t, keep)

-----------------------------------------------------------------------------
(* aggregate_dvf: consolidation                                            *)

\* Column aggregations of Polars: sum and mean skip nulls, the sum of no
\* value is 0 and the mean of no value is null.
RECURSIVE SumF(_)
SumF(cells) ==
    IF cells = <<>> THEN R(0)
    ELSE IF IsNull(Head(cells)) THEN SumF(Tail(cells))
    ELSE RAdd(Head(cells)[1], SumF(Tail(cells)))

RECURSIVE SumI(_)
SumI(cells) ==
    IF cells = <<>> THEN 0
    ELSE IF IsNull(Head(cells)) THEN SumI(Tail(cells))
    ELSE Head(cells)[1] + SumI(Tail(cells))

NonNull(cells) == SelectSeq(cells, LAMBDA c : ~IsNull(c))

MeanF(cells) ==
    IF NonNull(cells) = <<>> THEN NULL
    ELSE Some(RDiv(SumF(cells), R(Len(NonNull(cells)))))

disposition_cols == <<"id_mutation", "numero_disposition">>

\* The rows of t in the group_by group of key k, in table order.
group_rows(t, cols, k) == Rows(t, {j \in Idx(t) : Key(t[j], cols) = k})

Column(t, col) == [i \in Idx(t) |-> t[i][col]]

surface_batie_totale(t, r) ==
    IF NoNull(Key(r, disposition_cols))
    THEN Some(SumF(Column(group_rows(t, disposition_cols, Key(r, disposition_cols)),
                          "surface_reelle_bati")))
    ELSE NULL

valeur_moyenne(t, r) ==
    IF NoNull(Key(r, disposition_cols))
    THEN MeanF(Column(group_rows(t, disposition_cols, Key(r, disposition_cols)),
                      "valeur_fonciere"))
    ELSE NULL

\* Mutant: the row's own declared price is allocated, not the group's mean.
prix_de_vente_own_price(t, r) ==
    Mul3(Div3(r.valeur_fonciere, surface_batie_totale(t, r)),
         r.surface_reelle_bati)

\* (valeur_moyenne / surface_batie_totale) * surface_reelle_bati
prix_de_vente(t, r) ==
    Mul3(Div3(valeur_moyenne(t, r), surface_batie_totale(t, r)),
         r.surface_reelle_bati)

compute_total_surface_and_price(t) ==
    [i \in Idx(t) |->
        [ id_mutation |-> t[i].id_mutation,
          date_mutation |-> t[i].date_mutation,
          numero_disposition |-> t[i].numero_disposition,
          nature_mutation |-> t[i].nature_mutation,
          valeur_fonciere |-> t[i].valeur_fonciere,
          code_commune |-> t[i].code_commune,
          code_departement |-> t[i].code_departement,
          id_parcelle |-> t[i].id_parcelle,
          type_local |-> t[i].type_local,
          surface_reelle_bati |-> t[i].surface_reelle_bati,
          nombre_pieces_principales |-> t[i].nombre_pieces_principales,
          nature_culture |-> t[i].nature_culture,
          nature_culture_speciale |-> t[i].nature_culture_speciale,
          longitude |-> t[i].longitude,
          latitude |-> t[i].latitude,
          has_dependency |-> t[i].has_dependency,
          surface_batie_totale |-> surface_batie_totale(t, t[i]),
          valeur_moyenne |-> valeur_moyenne(t, t[i]),
          prix_de_vente |-> prix_de_vente(t, t[i]) ]]

\* The distinct keys of t, in the order of their first rows.
group_keys(t, cols) ==
    LET firsts == Rows(t, {i \in Idx(t) : first_of_group(t, cols, Key(t[i], cols)) = i})
    IN  [n \in Idx(firsts) |-> Key(firsts[n], cols)]

\* Mutant: type_local is taken from the last row of the group.
reduce_group_last_type(g) ==
    [ id_mutation |-> g[1].id_mutation,
      numero_disposition |-> g[1].numero_disposition,
      date_mutation |-> g[1].date_mutation,
      nature_mutation |-> g[1].nature_mutation,
      valeur_fonciere |-> g[1].valeur_fonciere,
      code_commune |-> g[1].code_commune,
      code_departement |-> g[1].code_departement,
      id_parcelle |-> Column(g, "id_parcelle"),
      type_local |-> g[Len(g)].type_local,
      surface_reelle_bati |-> Column(g, "surface_reelle_bati"),
      nombre_pieces_principales |->
          Some(SumI(Column(g, "nombre_pieces_principales"))),
      nature_culture |-> Column(g, "nature_culture"),
      nature_culture_speciale |-> Column(g, "nature_culture_speciale"),
      longitude |-> g[1].longitude,
      latitude |-> g[1].latitude,
      has_dependency |-> g[1].has_dependency,
      prix_de_vente |-> Column(g, "prix_de_vente"),
      surface_batie_totale |-> g[1].surface_batie_totale ]

\* The row reduce_data makes of one group g (its rows in table order).
reduce_group(g) ==
    [ id_mutation |-> g[1].id_mutation,
      numero_disposition |-> g[1].numero_disposition,
      date_mutation |-> g[1].date_mutation,
      nature_mutation |-> g[1].nature_mutation,
      valeur_fonciere |-> g[1].valeur_fonciere,
      code_commune |-> g[1].code_commune,
      code_departement |-> g[1].code_departement,
      id_parcelle |-> Column(g, "id_parcelle"),
      type_local |-> g[1].type_local,
      surface_reelle_bati |-> Column(g, "surface_reelle_bati"),
      nombre_pieces_principales |->
          Some(SumI(Column(g, "nombre_pieces_principales"))),
      nature_culture |-> Column(g, "nature_culture"),
      nature_culture_speciale |-> Column(g, "nature_culture_speciale"),
      longitude |-> g[1].longitude,
      latitude |-> g[1].latitude,
      has_dependency |-> g[1].has_dependency,
      prix_de_vente |-> Column(g, "prix_de_vente"),
      surface_batie_totale |-> g[1].surface_batie_totale ]

\* group_by(...).agg(...) with the groups in the order of their first rows.
\* Polars does not fix the order of the groups of a group_by; ReduceData
\* below chooses one.
reduce_data(t) ==
    LET keys == group_keys(t, disposition_cols)
    IN  [n \in Idx(keys) |-> reduce_group(group_rows(t, disposition_cols, keys[n]))]

Orders(n) == {p \in [1..n -> 1..n] : \A i, j \in 1..n : p[i] = p[j] => i = j}
Permute(t, p) == [i \in Idx(t) |-> t[p[i]]]

\* cast(pl.Utf8) of an Int64: its decimal digits, with a sign when negative.
Digit(d) ==
    CASE d = 0 -> "0" [] d = 1 -> "1" [] d = 2 -> "2" [] d = 3 -> "3" [] d = 4 -> "4"
      [] d = 5 -> "5" [] d = 6 -> "6" [] d = 7 -> "7" [] d = 8 -> "8" [] d = 9 -> "9"

RECURSIVE Digits(_)
Digits(n) == IF n < 10 THEN Digit(n) ELSE Digits(n \div 10) \o Digit(n % 10)

cast_utf8(n) == IF n < 0 THEN "-" \o Digits(-n) ELSE Digits(n)

\* id_mutation.cast(Utf8) + "_" + numero_disposition.cast(Utf8)
\* Mutant: the key is made of id_mutation alone.
cle_principale_of_mutation(r) ==
    IF IsNull(r.id_mutation) \/ IsNull(r.numero_disposition) THEN NULL
    ELSE Some(r.id_mutation[1])

cle_principale(r) ==
    IF IsNull(r.id_mutation) \/ IsNull(r.numero_disposition) THEN NULL
    ELSE Some(r.id_mutation[1] \o "_" \o cast_utf8(r.numero_disposition[1]))

\* n_unique counts null as one value.
n_unique(cells) == Cardinality(Range(cells))

\* The check that ends aggregate_dvf: RuntimeError("Reduce Failed").
reduce_failed(t) == Len(t) # n_unique([i \in Idx(t) |-> cle_principale(t[i])])

-----------------------------------------------------------------------------
(* process_dvf: derived columns and regions                                *)

add_price_per_sqm(t) ==
    [i \in Idx(t) |->
        [ id_mutation |-> t[i].id_mutation,
          numero_disposition |-> t[i].numero_disposition,
          date_mutation |-> t[i].date_mutation,
          nature_mutation |-> t[i].nature_mutation,
          valeur_fonciere |-> t[i].valeur_fonciere,
          code_commune |-> t[i].code_commune,
          code_departement |-> t[i].code_departement,
          id_parcelle |-> t[i].id_parcelle,
          type_local |-> t[i].type_local,
          surface_reelle_bati |-> t[i].surface_reelle_bati,
          nombre_pieces_principales |-> t[i].nombre_pieces_principales,
          nature_culture |-> t[i].nature_culture,
          nature_culture_speciale |-> t[i].nature_culture_speciale,
          longitude |-> t[i].longitude,
          latitude |-> t[i].latitude,
          has_dependency |-> t[i].has_dependency,
          prix_de_vente |-> t[i].prix_de_vente,
          surface_batie_totale |-> t[i].surface_batie_totale,
          prix_m2 |-> Div3(t[i].valeur_fonciere, t[i].surface_batie_totale),
          cle_principale |-> cle_principale(t[i]) ]]

\* list.first(): null for an empty list.
\* Mutant: the last element of the list.
list_last(l) == IF l = <<>> THEN NULL ELSE l[Len(l)]

list_first(l) == IF l = <<>> THEN NULL ELSE l[1]

\* r with the columns of the record more added to it.
With(r, more) ==
    [c \in DOMAIN r \cup DOMAIN more |-> IF c \in DOMAIN more THEN more[c] ELSE r[c]]

add_first_parcel_id(t) ==
    [i \in Idx(t) |-> With(t[i], [id_parcelle_unique |-> list_first(t[i].id_parcelle)])]

\* how="left" join of t with the table right on the key columns on, adding
\* the columns cols of right: every row of t, in order, once per matching
\* row of right (in right's order), or once with the columns cols null when
\* no row of right matches.
left_join(t, right, on, cols) ==
    Flatten([i \in Idx(t) |->
        LET hits == Rows(right, {j \in Idx(right) :
                        JoinMatch(Key(t[i], on), Key(right[j], on))})
        IN  IF hits = <<>> THEN <<With(t[i], [c \in cols |-> NULL])>>
            ELSE [h \in Idx(hits) |-> With(t[i], [c \in cols |-> hits[h][c]])]])

\* load_region_mapping: v_departement_2025.csv (DEP, REG) left-joined with
\* v_region_2025.csv (REG, LIBELLE) on code_region.
load_region_mapping(insee) ==
    left_join(insee.departement, insee.region, <<"code_region">>, {"nom_region"})

add_region_information(t, mapping) ==
    left_join(t, mapping, <<"code_departement">>, {"code_region", "nom_region"})

\* Contents the two INSEE files may have: the regular tables, a department
\* file that lists a department twice, and a department file without the
\* department of the transactions.
Dep75 == [code_departement |-> Some("75"), code_region |-> Some("11")]
Dep69 == [code_departement |-> Some("69"), code_region |-> Some("84")]
Reg11 == [code_region |-> Some("11"), nom_region |-> Some("Île-de-France")]
Reg84 == [code_region |-> Some("84"), nom_region |-> Some("Auvergne-Rhône-Alpes")]

InseeFiles ==
    { [departement |-> <<Dep75, Dep69>>, region |-> <<Reg11, Reg84>>],
      [departement |-> <<Dep75, Dep69, Dep75>>, region |-> <<Reg11, Reg84>>],
      [departement |-> <<Dep69>>, region |-> <<Reg11, Reg84>>] }

-----------------------------------------------------------------------------
(* Outlier removal                                                         *)

I3(c) == IF IsNull(c) THEN NULL ELSE Some(R(c[1]))   \* Int64 cell as Float64

\* Mutant: a total built surface of exactly 5 passes the threshold.
remove_extreme_outliers_from_5(t) ==
    LET keep(r) ==
            All3(<< Gt3(r.surface_batie_totale, Some(Rat(9, 2))),
                    Lt3(r.surface_batie_totale, F(1000)),
                    Gt3(r.valeur_fonciere, F(10000)),
                    Lt3(r.valeur_fonciere, F(10000000)),
                    Gt3(r.prix_m2, F(400)),
                    Lt3(r.prix_m2, F(30000)),
                    Gt3(I3(r.nombre_pieces_principales), F(0)),
                    Lt3(I3(r.nombre_pieces_principales), F(20)) >>) = T3
    IN  SelectSeq(t, keep)

remove_extreme_outliers(t) ==
    LET keep(r) ==
            All3(<< Gt3(r.surface_batie_totale, F(5)),
                    Lt3(r.surface_batie_totale, F(1000)),
                    Gt3(r.valeur_fonciere, F(10000)),
                    Lt3(r.valeur_fonciere, F(10000000)),
                    Gt3(r.prix_m2, F(400)),
                    Lt3(r.prix_m2, F(30000)),
                    Gt3(I3(r.nombre_pieces_principales), F(0)),
                    Lt3(I3(r.nombre_pieces_principales), F(20)) >>) = T3
    IN  SelectSeq(t, keep)

\* The rationals of vs in non-decreasing order.
RECURSIVE Insert(_, _)
Insert(v, sorted) ==
    IF sorted = <<>> THEN <<v>>
    ELSE IF RLt(Head(sorted), v) THEN <<Head(sorted)>> \o Insert(v, Tail(sorted))
    ELSE <<v>> \o sorted

RECURSIVE Sort(_)
Sort(vs) == IF vs = <<>> THEN <<>> ELSE Insert(Head(vs), Sort(Tail(vs)))

Values(cells) ==
    LET present == NonNull(cells)
    IN  [i \in Idx(present) |-> present[i][1]]

\* Expr.quantile(k/4) with Polars' default interpolation "nearest": of the n
\* non-null values sorted, the one at 0-based position round((n-1)*k/4),
\* halves rounded up; null when there is no value.
quantile(cells, k) ==
    LET vs == Sort(Values(cells))
    IN  IF vs = <<>> THEN NULL
        ELSE Some(vs[(((Len(vs) - 1) * k + 2) \div 4) + 1])

\* The four columns the IQR filter reads, as Float64 cells.
iqr_cols(r) ==
    << r.valeur_fonciere, r.prix_m2, r.surface_batie_totale,
       I3(r.nombre_pieces_principales) >>

OneAndAHalf == Some(Rat(3, 2))

\* q1 - 1.5 * (q3 - q1) and q3 + 1.5 * (q3 - q1)
iqr_min(q1, q3) == Sub3(q1, Mul3(OneAndAHalf, Sub3(q3, q1)))
iqr_max(q1, q3) == Add3(q3, Mul3(OneAndAHalf, Sub3(q3, q1)))

\* The row of `bounds` for the group g of one commune.
commune_bounds(g) ==
    [ commune_count |-> Some(R(Len(g))),
      min |-> [m \in 1..4 |->
                 LET cells == [i \in Idx(g) |-> iqr_cols(g[i])[m]]
                 IN  iqr_min(quantile(cells, 1), quantile(cells, 3))],
      max |-> [m \in 1..4 |->
                 LET cells == [i \in Idx(g) |-> iqr_cols(g[i])[m]]
                 IN  iqr_max(quantile(cells, 1), quantile(cells, 3))] ]

no_bounds ==
    [ commune_count |-> NULL, min |-> [m \in 1..4 |-> NULL],
      max |-> [m \in 1..4 |-> NULL] ]

commune_cols == <<"code_commune">>

\* Mutant: the fence of the room count is not applied.
iqr_keep_without_rooms(r, b) ==
    Or3(Lt3(b.commune_count, F(10)),
        All3(<< Gt3(iqr_cols(r)[1], b.min[1]), Lt3(iqr_cols(r)[1], b.max[1]),
                Gt3(iqr_cols(r)[2], b.min[2]), Lt3(iqr_cols(r)[2], b.max[2]),
                Gt3(iqr_cols(r)[3], b.min[3]), Lt3(iqr_cols(r)[3], b.max[3]) >>))

\* (commune_count < 10) | (min < value) & (value < max) for the four columns
iqr_keep(r, b) ==
    Or3(Lt3(b.commune_count, F(10)),
        All3(<< Gt3(iqr_cols(r)[1], b.min[1]), Lt3(iqr_cols(r)[1], b.max[1]),
                Gt3(iqr_cols(r)[2], b.min[2]), Lt3(iqr_cols(r)[2], b.max[2]),
                Gt3(iqr_cols(r)[3], b.min[3]), Lt3(iqr_cols(r)[3], b.max[3]),
                Gt3(iqr_cols(r)[4], b.min[4]), Lt3(iqr_cols(r)[4], b.max[4]) >>))

remove_iqr_outliers(t) ==
    LET communes == {Key(t[i], commune_cols) : i \in Idx(t)}
        bounds == [k \in communes |->
                      commune_bounds(group_rows(t, commune_cols, k))]
        joined(r) == IF NoNull(Key(r, commune_cols))
                     THEN bounds[Key(r, commune_cols)]
                     ELSE no_bounds
        keep(r) == iqr_keep(r, joined(r)) = T3
    IN  SelectSeq(t, keep)

-----------------------------------------------------------------------------
(* Time adjustment                                                         *)

\* dt.year()
year(date) == IF IsNull(date) THEN NULL ELSE Some(date[1][1])

\* Expr.median(): nulls skipped, the mean of the two middle values when
\* their number is even, null when there is none.
median(cells) ==
    LET vs == Sort(Values(cells))
        n == Len(vs)
    IN  IF n = 0 THEN NULL
        ELSE IF n % 2 = 1 THEN Some(vs[(n + 1) \div 2])
        ELSE Some(RDiv(RAdd(vs[n \div 2], vs[n \div 2 + 1]), R(2)))

year_cols == <<"code_departement", "type_local", "annee_mutation">>
pair_cols(k) == <<k[1], k[2]>>

\* median_prices: one row per (code_departement, type_local, annee_mutation).
median_prices(t) ==
    [k \in {Key(t[i], year_cols) : i \in Idx(t)} |->
        median(Column(group_rows(t, year_cols, k), "prix_m2"))]

\* reference_medians joined on (code_departement, type_local).
median_ref(mp, k, reference_year) ==
    LET ref == <<k[1], k[2], Some(reference_year)>>
    IN  IF NoNull(pair_cols(k)) /\ ref \in DOMAIN mp THEN mp[ref] ELSE NULL

\* latest_medians joined on (code_departement, type_local): the median of
\* the last row of the pair in median_prices sorted by year, nulls first.
median_latest(mp, k) ==
    LET same == {j \in DOMAIN mp : pair_cols(j) = pair_cols(k)}
        years == {j[3][1] : j \in {x \in same : ~IsNull(x[3])}}
        last == IF years = {} THEN <<k[1], k[2], NULL>>
                ELSE <<k[1], k[2], Some(Max(years))>>
    IN  IF NoNull(pair_cols(k)) THEN mp[last] ELSE NULL

\* Mutant: the latest year is the target whatever the reference year holds.
median_target_latest(mp, k, reference_year) == median_latest(mp, k)

median_target(mp, k, reference_year) ==
    IF ~IsNull(median_ref(mp, k, reference_year))
    THEN median_ref(mp, k, reference_year)
    ELSE median_latest(mp, k)

\* Mutant: the factor is the year median over the target median.
adjustment_factor_inverted(mp, k, reference_year) ==
    IF And3(Gt3(mp[k], F(0)),
            IsNotNull3(median_target(mp, k, reference_year))) = T3
    THEN Div3(mp[k], median_target(mp, k, reference_year))
    ELSE F(1)

\* when((median_prix_m2 > 0) & median_target.is_not_null())
\*   .then(median_target / median_prix_m2).otherwise(1.0)
adjustment_factor(mp, k, reference_year) ==
    IF And3(Gt3(mp[k], F(0)),
            IsNotNull3(median_target(mp, k, reference_year))) = T3
    THEN Div3(median_target(mp, k, reference_year), mp[k])
    ELSE F(1)

\* Mutant: a missing factor is not replaced.
coalesce_first(a, b) == a

coalesce(a, b) == IF IsNull(a) THEN b ELSE a

compute_time_adjusted_price(t, reference_year) ==
    LET dated == [i \in Idx(t) |->
                     With(t[i], [annee_mutation |-> year(t[i].date_mutation)])]
        mp == median_prices(dated)
        factors == [k \in DOMAIN mp |-> adjustment_factor(mp, k, reference_year)]
        joined(r) == IF NoNull(Key(r, year_cols)) THEN factors[Key(r, year_cols)]
                     ELSE NULL
    IN  [i \in Idx(dated) |->
            With(dated[i],
                 [prix_m2_ajuste |->
                      Mul3(dated[i].prix_m2, coalesce(joined(dated[i]), F(1)))])]

\* f"{100*adjusted_count/total:.1f}" divides by the number of rows.
time_adjustment_raises(t) == Len(t) = 0

ReferenceYear == 2025

-----------------------------------------------------------------------------
(* Spatial join with the IRIS layer                                        *)

\* to_crs("EPSG:2154"): WGS 84 longitude/latitude to Lambert-93 (conic
\* conformal, GRS80, standard parallels 44 N and 49 N, origin 3 E 46.5 N at
\* (700000, 6600000)), rounded to the metre.  The projection is tabulated,
\* one guarded row per point, in ten-thousandths of a degree: the points of
\* the model on the central meridian (46.5 N, 47 N, 48 N) and the points of
\* the tests of spatial_join_iris (three in Paris, Lyon, Marseille and one
\* in the Atlantic).  It is defined on these points and on null
\* coordinates only.
to_crs(lon, lat) ==
    IF IsNull(lon) \/ IsNull(lat) THEN NULL
    ELSE LET at(x, y) == lon[1] = Rat(x, 10000) /\ lat[1] = Rat(y, 10000)
         IN  CASE at(30000, 465000) -> Some(<<700000, 6600000>>)
               [] at(30000, 470000) -> Some(<<700000, 6655531>>)
               [] at(30000, 480000) -> Some(<<700000, 6766624>>)
               [] at(23376, 488606) -> Some(<<651402, 6862489>>)
               [] at(23380, 488610) -> Some(<<651431, 6862533>>)
               [] at(23385, 488615) -> Some(<<651468, 6862588>>)
               [] at(48344, 457676) -> Some(<<842556, 6520322>>)
               [] at(53698, 432965) -> Some(<<892390, 6247035>>)
               [] at(-400000, 300000) -> Some(<<-3397469, 5890189>>)

\* Mutant: only the abscissa of the point is compared.
within_abscissa(pt, g) ==
    /\ ~IsNull(pt)
    /\ g.xmin < pt[1][1] /\ pt[1][1] < g.xmax

\* predicate="within" for a rectangle [xmin, xmax] x [ymin, ymax]: the point
\* lies in its interior.
within(pt, g) ==
    /\ ~IsNull(pt)
    /\ g.xmin < pt[1][1] /\ pt[1][1] < g.xmax
    /\ g.ymin < pt[1][2] /\ pt[1][2] < g.ymax

\* gpd.sjoin(points, iris, how="left", predicate="within"): per point, in
\* point order, one row per polygon it lies within (in layer order), or one
\* row without polygon.
sjoin(points, layer) ==
    Flatten([i \in Idx(points) |->
        LET hits == Rows(layer, {j \in Idx(layer) : within(points[i], layer[j].geometry)})
        IN  IF hits = <<>>
            THEN << [chunk_idx |-> i - 1, code_iris |-> NULL, nom_iris |-> NULL] >>
            ELSE [h \in Idx(hits) |->
                     [chunk_idx |-> i - 1, code_iris |-> hits[h].code_iris,
                      nom_iris |-> hits[h].nom_iris]]])

\* Mutant: every match of a point is kept.
drop_duplicates_none(j) == j

\* Mutant: the last match of a point is kept.
drop_duplicates_keep_last(j) ==
    Rows(j, {n \in Idx(j) : \A m \in (n + 1)..Len(j) : j[m].chunk_idx # j[n].chunk_idx})

\* drop_duplicates(subset=["_chunk_idx"], keep="first")
drop_duplicates(j) ==
    Rows(j, {n \in Idx(j) : \A m \in 1..(n - 1) : j[m].chunk_idx # j[n].chunk_idx})

\* The rows of one chunk after the join, ordered by _chunk_idx.
join_chunk(chunk, layer) ==
    drop_duplicates(sjoin([i \in Idx(chunk) |-> to_crs(chunk[i].longitude, chunk[i].latitude)],
                          layer))

\* Mutant: every chunk is cut at the head of the table.
slice_at_head(t, start, len) == [i \in 1..len |-> t[i]]

slice(t, start, len) == [i \in 1..len |-> t[start + i]]

n_chunks(total_rows, chunk_size) == (total_rows + chunk_size - 1) \div chunk_size

chunk_of(t, i, chunk_size) ==
    slice(t, i * chunk_size, Min({(i + 1) * chunk_size, Len(t)}) - i * chunk_size)

\* all_iris_codes / all_iris_names after the loop over the chunks.
iris_rows(t, layer, chunk_size) ==
    Flatten([c \in 1..n_chunks(Len(t), chunk_size) |->
                join_chunk(chunk_of(t, c - 1, chunk_size), layer)])

\* assert len(joined) == chunk_len, for some chunk
length_mismatch(t, layer, chunk_size) ==
    \E c \in 1..n_chunks(Len(t), chunk_size) :
        Len(join_chunk(chunk_of(t, c - 1, chunk_size), layer))
            # Len(chunk_of(t, c - 1, chunk_size))

\* f"{100*matched_total/total_rows:.1f}" divides by the number of rows.
spatial_join_raises(t) == Len(t) = 0

spatial_join_iris(t, layer, chunk_size) ==
    LET joined == iris_rows(t, layer, chunk_size)
    IN  [i \in Idx(t) |->
            With(t[i], [code_iris |-> joined[i].code_iris,
                        nom_iris |-> joined[i].nom_iris])]

DefaultChunkSize == 500000

ZoneA ==
    [ code_iris |-> Some("751010101"), nom_iris |-> Some("Saint-Germain 1"),
      geometry |-> [xmin |-> 699000, xmax |-> 701000, ymin |-> 6599000, ymax |-> 6601000] ]
ZoneB ==
    [ code_iris |-> Some("751010102"), nom_iris |-> Some("Saint-Germain 2"),
      geometry |-> [xmin |-> 699500, xmax |-> 702000, ymin |-> 6599500, ymax |-> 6602000] ]

ZoneC ==
    [ code_iris |-> Some("891010101"), nom_iris |-> Some("Centre"),
      geometry |-> [xmin |-> 699000, xmax |-> 701000, ymin |-> 6655000, ymax |-> 6656000] ]

\* The square around the Palais Royal of the layer the tests of
\* spatial_join_iris read.
PalaisRoyal ==
    [ code_iris |-> Some("751010101"), nom_iris |-> Some("Palais Royal"),
      geometry |-> [xmin |-> 651000, xmax |-> 652000, ymin |-> 6862000, ymax |-> 6863000] ]

IrisLayers ==
    { <<>>, <<ZoneA>>, <<ZoneB, ZoneA>>, <<ZoneA, ZoneC, ZoneB>>, <<PalaisRoyal, ZoneC>> }

-----------------------------------------------------------------------------
(* The run of main(): one action per stage                                 *)

Init ==
    /\ stage = "start"
    /\ raw \in RawInputs
    /\ df = <<>>
    /\ prev = <<>>
    /\ region_mapping = <<>>
    /\ iris = <<>>
    /\ error = ""
    /\ parquet = <<>>

\* A stage that maps the table `from` to the table `to`.
Step(at, next, to) ==
    /\ stage = at
    /\ stage' = next
    /\ prev' = df
    /\ df' = to
    /\ UNCHANGED <<raw, region_mapping, iris, error, parquet>>

\* Mutant: the table reached so far is written when a stage raises.
Raise_writing_table(at, exception) ==
    /\ stage = at
    /\ stage' = "failed"
    /\ error' = exception
    /\ parquet' = <<df>>
    /\ UNCHANGED <<raw, df, prev, region_mapping, iris>>

\* A stage that raises: the exception leaves process_dvf and main.
Raise(at, exception) ==
    /\ stage = at
    /\ stage' = "failed"
    /\ error' = exception
    /\ UNCHANGED <<raw, df, prev, region_mapping, iris, parquet>>

ScanCsv ==
    /\ stage = "start"
    /\ IF to_date_fails(raw)
       THEN Raise("start", "ComputeError")
       ELSE Step("start", "loaded", scan_csv(raw))

FillNatureCultureNulls == Step("loaded", "filled", fill_nature_culture_nulls(df))

RemoveDuplicateLines == Step("filled", "deduplicated", remove_duplicate_lines(df))

AddDependency == Step("deduplicated", "flagged", add_dependency(df))

DropUnwantedValues == Step("flagged", "eligible", drop_unwanted_values(df))

ComputeTotalSurfaceAndPrice ==
    Step("eligible", "allocated", compute_total_surface_and_price(df))

ReduceData ==
    /\ stage = "allocated"
    /\ \E p \in Orders(Len(reduce_data(df))) :
          Step("allocated", "reduced", Permute(reduce_data(df), p))

VerifyReduction ==
    /\ stage = "reduced"
    /\ IF reduce_failed(df)
       THEN Raise("reduced", "RuntimeError")
       ELSE Step("reduced", "aggregated", df)

AddPricePerSqm == Step("aggregated", "priced", add_price_per_sqm(df))

AddFirstParcelId == Step("priced", "parcelled", add_first_parcel_id(df))

AddRegionInformation ==
    /\ stage = "parcelled"
    /\ \E insee \in InseeFiles :
        /\ stage' = "regioned"
        /\ region_mapping' = load_region_mapping(insee)
        /\ prev' = df
        /\ df' = add_region_information(df, load_region_mapping(insee))
        /\ UNCHANGED <<raw, iris, error, parquet>>

\* Mutant: the IQR filter runs first, on the rows the thresholds have not
\* seen yet.
RemoveExtremeOutliers_after_iqr ==
    Step("regioned", "thresholded", remove_extreme_outliers(remove_iqr_outliers(df)))

RemoveExtremeOutliers == Step("regioned", "thresholded", remove_extreme_outliers(df))

\* Mutant: the fences of the communes are not applied.
RemoveIqrOutliers_skipped == Step("thresholded", "filtered", df)

RemoveIqrOutliers == Step("thresholded", "filtered", remove_iqr_outliers(df))

ComputeTimeAdjustedPrice ==
    /\ stage = "filtered"
    /\ IF time_adjustment_raises(df)
       THEN Raise("filtered", "ZeroDivisionError")
       ELSE Step("filtered", "adjusted", compute_time_adjusted_price(df, ReferenceYear))

\* spatial_join_iris(df, chunk_size) on the layer read from IRIS_GPKG.
SpatialJoin(chunk_size) ==
    /\ stage = "adjusted"
    /\ \E layer \in IrisLayers :
        /\ iris' = layer
        /\ IF length_mismatch(df, layer, chunk_size)
           THEN /\ stage' = "failed"
                /\ error' = "AssertionError"
                /\ UNCHANGED <<df, prev, parquet>>
           ELSE IF spatial_join_raises(df)
           THEN /\ stage' = "failed"
                /\ error' = "ZeroDivisionError"
                /\ UNCHANGED <<df, prev, parquet>>
           ELSE /\ stage' = "joined"
                /\ prev' = df
                /\ df' = spatial_join_iris(df, layer, chunk_size)
                /\ UNCHANGED <<error, parquet>>
        /\ UNCHANGED <<raw, region_mapping>>

SpatialJoinIris == SpatialJoin(DefaultChunkSize)

WriteParquet ==
    /\ stage = "joined"
    /\ stage' = "written"
    /\ parquet' = <<df>>
    /\ UNCHANGED <<raw, df, prev, region_mapping, iris, error>>

Next ==
    \/ ScanCsv
    \/ FillNatureCultureNulls
    \/ RemoveDuplicateLines
    \/ AddDependency
    \/ DropUnwantedValues
    \/ ComputeTotalSurfaceAndPrice
    \/ ReduceData
    \/ VerifyReduction
    \/ AddPricePerSqm
    \/ AddFirstParcelId
    \/ AddRegionInformation
    \/ RemoveExtremeOutliers
    \/ RemoveIqrOutliers
    \/ ComputeTimeAdjustedPrice
    \/ SpatialJoinIris
    \/ WriteParquet

Spec == Init /\ [][Next]_vars

-----------------------------------------------------------------------------
(* Claims on the whole run (specification Spec)                            *)

\* C1: after the full pipeline (through the spatial join) no two rows of the
\* output table share the same (id_mutation, numero_disposition), whatever
\* the raw input and the department-to-region tables.
C1_UniqueDispositionKey ==
    stage \in {"joined", "written"} =>
        \A i, j \in Idx(df) :
            i # j => Key(df[i], disposition_cols) # Key(df[j], disposition_cols)

\* The rows of the table that entered reduce_data which make up the
\* consolidated row r.
Constituents(r) == group_rows(prev, disposition_cols, Key(r, disposition_cols))

DeclaredPrices(r) == Column(Constituents(r), "valeur_fonciere")

\* C2 as stated: in every consolidated row the allocated prices
\* (prix_de_vente) sum to the row's declared price (valeur_fonciere),
\* whatever prices the constituent rows carry.
C2_SumIsDeclaredPrice ==
    stage = "reduced" =>
        \A i \in Idx(df) : Some(SumF(df[i].prix_de_vente)) = df[i].valeur_fonciere

\* C2 as amended: in every consolidated row with a non-null key the
\* allocated prices sum to the mean of the declared prices of its
\* constituent rows, hence to valeur_fonciere (the first row's price) when
\* the constituent rows all carry the same price; a row with a null
\* id_mutation or numero_disposition has only null allocations.
C2_SumIsMeanPrice ==
    stage = "reduced" =>
        \A i \in Idx(df) :
            IF NoNull(Key(df[i], disposition_cols))
            THEN /\ Some(SumF(df[i].prix_de_vente)) = MeanF(DeclaredPrices(df[i]))
                 /\ Cardinality(Range(DeclaredPrices(df[i]))) = 1
                        => Some(SumF(df[i].prix_de_vente)) = df[i].valeur_fonciere
            ELSE \A n \in Idx(df[i].prix_de_vente) : IsNull(df[i].prix_de_vente[n])

\* A consolidated row of two properties sold at different declared prices,
\* whose allocations sum to the mean and not to the first price.
C2_Witness ==
    /\ stage = "reduced"
    /\ \E i \in Idx(df) :
          /\ Len(df[i].prix_de_vente) = 2
          /\ Cardinality(Range(DeclaredPrices(df[i]))) = 2
          /\ Some(SumF(df[i].prix_de_vente)) = MeanF(DeclaredPrices(df[i]))
          /\ Some(SumF(df[i].prix_de_vente)) # df[i].valeur_fonciere

\* Index in the table that entered the stage of the first row, in ingestion
\* order, of the group of row i under the key columns cols.
FirstOfItsGroup(i, cols) ==
    Min({j \in Idx(prev) : Key(prev[j], cols) = Key(prev[i], cols)})

\* C3: remove_duplicate_lines keeps a row if and only if its nature_culture
\* equals the nature_culture of the first row of its (id_mutation,
\* numero_disposition, id_parcelle, nature_mutation) group; the kept rows
\* are unchanged and in their original order.
C3_KeepsRowsOfFirstLandUse ==
    stage = "deduplicated" =>
        df = Rows(prev, {i \in Idx(prev) :
                 prev[i].nature_culture =
                     prev[FirstOfItsGroup(i, dedup_cols)].nature_culture})

-----------------------------------------------------------------------------
(* drop_unwanted_values on its own inputs (specification SpecEligibility)  *)

\* One row per combination of the values the eligibility filter reads.
ProbeRows ==
    { [BaseRow EXCEPT !.nature_mutation = n, !.type_local = ty,
                      !.valeur_fonciere = v, !.surface_reelle_bati = s,
                      !.latitude = la, !.longitude = lo] :
        n \in {NULL, Some("Vente"), Some("Vente en l'état futur d'achèvement"),
               Some("Adjudication"), Some("Echange")},
        ty \in {NULL, Some("Maison"), Some("Appartement"), Some("Dépendance"),
                Some("Local industriel. commercial ou assimilé")},
        v \in {NULL, F(100), Some(Rat(201, 2)), F(200000)},
        s \in {NULL, F(0), Some(Rat(1, 2)), F(100)},
        la \in {NULL, Some(Rat(93, 2))},
        lo \in {NULL, F(3)} }

\* Rows that surround the probed row in the file: an eligible sale, its
\* outbuilding and an exchange.
ContextRows ==
    { [BaseRow EXCEPT !.id_mutation = Some("2024-2")],
      [BaseRow EXCEPT !.type_local = Some("Dépendance"),
                      !.surface_reelle_bati = NULL],
      [BaseRow EXCEPT !.id_mutation = Some("2024-2"),
                      !.nature_mutation = Some("Echange")] }

\* Largest number of rows before, and after, the probed row.
MaxContextRows == 1

EligibilityInputs ==
    {<<>>} \cup
    { before \o <<p>> \o after :
        before \in SeqsUpTo(ContextRows, MaxContextRows),
        p \in ProbeRows,
        after \in SeqsUpTo(ContextRows, MaxContextRows) }

\* The run as it reaches stage `at` holding the table t, made from `before`.
Reaches(at, file, before, t, mapping) ==
    /\ stage = at
    /\ raw = file
    /\ prev = before
    /\ df = t
    /\ region_mapping = mapping
    /\ iris = <<>>
    /\ error = ""
    /\ parquet = <<>>

InitEligibility ==
    \E file \in EligibilityInputs :
        LET deduplicated ==
                remove_duplicate_lines(fill_nature_culture_nulls(scan_csv(file)))
        IN  Reaches("flagged", file, deduplicated, add_dependency(deduplicated), <<>>)

SpecEligibility == InitEligibility /\ [][DropUnwantedValues]_vars

\* The conditions of eligibility, read off a row.
Eligible(r) ==
    /\ r.nature_mutation \in
           {Some("Vente"), Some("Vente en l'état futur d'achèvement"),
            Some("Adjudication")}
    /\ r.type_local \in {Some("Maison"), Some("Appartement")}
    /\ ~IsNull(r.valeur_fonciere) /\ RLt(R(100), r.valeur_fonciere[1])
    /\ ~IsNull(r.surface_reelle_bati) /\ RLt(R(0), r.surface_reelle_bati[1])
    /\ ~IsNull(r.latitude)
    /\ ~IsNull(r.longitude)

\* C4: drop_unwanted_values keeps a row if and only if its sale nature is
\* Vente, Vente en l'état futur d'achèvement or Adjudication, its type is
\* Maison or Appartement, its declared price is strictly above 100, its
\* built surface is non-null and strictly above 0 and its latitude and
\* longitude are non-null; the kept rows are unchanged, in their order.
C4_KeepsEligibleRows ==
    stage = "eligible" =>
        df = Rows(prev, {i \in Idx(prev) : Eligible(prev[i])})

\* A row priced exactly 100 is dropped next to a row that is kept.
C4_Witness ==
    /\ stage = "eligible"
    /\ Len(df) = 1
    /\ \E i \in Idx(prev) :
          /\ prev[i].valeur_fonciere = F(100)
          /\ Eligible([prev[i] EXCEPT !.valeur_fonciere = F(101)])
          /\ prev[i] \notin Range(df)

-----------------------------------------------------------------------------
(* remove_outliers on its own inputs (specification SpecOutliers)          *)

\* aggregate_dvf on a file, order being the order in which group_by lists
\* the groups at collect: the strict parse of date_mutation raises at
\* collect on a malformed date, and a table whose row count differs from
\* its number of distinct keys raises "Reduce Failed"; error is "" when the
\* function returns, and table is then the table returned.
aggregate_dvf(file, order) ==
    IF to_date_fails(file)
    THEN [error |-> "ComputeError", table |-> <<>>]
    ELSE LET df_reduced ==
                 Permute(reduce_data(compute_total_surface_and_price(
                     drop_unwanted_values(add_dependency(remove_duplicate_lines(
                         fill_nature_culture_nulls(scan_csv(file))))))), order)
         IN  IF reduce_failed(df_reduced)
             THEN [error |-> "RuntimeError", table |-> <<>>]
             ELSE [error |-> "", table |-> df_reduced]

RegularInsee == [departement |-> <<Dep75, Dep69>>, region |-> <<Reg11, Reg84>>]

\* The raw file of one sale of one house per element of sales, each element
\* giving the columns in which the sale differs from BaseRow.
SalesFile(sales) ==
    [n \in Idx(sales) |->
        With(With(BaseRow, sales[n]), [id_mutation |-> Some("2024-" \o Digits(n))])]

Sale(commune, price, surface, rooms) ==
    [ code_commune |-> commune, valeur_fonciere |-> price,
      surface_reelle_bati |-> surface, nombre_pieces_principales |-> rooms ]

\* Sales on and next to each hard threshold.  prix_m2 is 400 for 40000 on
\* 100 m2 and 30000 for 3000000 on 100 m2.
ThresholdSales ==
    { Sale(Some("75101"), F(v), F(s), Some(n)) :
        v \in {10000, 10001, 40000, 40100, 2999900, 3000000, 9999999, 10000000},
        s \in {5, 6, 100, 999, 1000},
        n \in {0, 1, 4, 19, 20} }

\* The sales of a commune: ordinary ones of two kinds, one far above the
\* others, one whose room count is 8 and one at 40000 per m2, which the
\* hard thresholds remove.
SaleA == Sale(Some("75101"), F(200000), F(100), Some(3))
SaleC == Sale(Some("75101"), F(400000), F(125), Some(5))
SaleD == Sale(Some("75101"), F(4000000), F(200), Some(6))
SaleE == Sale(Some("75101"), F(200000), F(100), Some(8))
SaleT == Sale(Some("75101"), F(4000000), F(100), Some(3))
\* A sale as sold in 2025; the sales above are sold in 2024.
Sold2025(sale) == With(sale, [date_mutation |-> Some(<<2025, 1, 10>>)])
\* A sale of another commune with large values, and a sale without commune.
SaleY == Sale(Some("69001"), F(9000000), F(900), Some(19))
SaleN == Sale(NULL, F(200000), F(100), Some(3))

\* The row remove_outliers receives for a one-house sale: the row the
\* stages before it make of the sale.
RegionedRows ==
    [ sale \in ThresholdSales
                  \cup {SaleA, SaleC, SaleD, SaleE, SaleT, SaleY, SaleN,
                        Sold2025(SaleA), Sold2025(SaleC)} |->
        LET aggregated == aggregate_dvf(SalesFile(<<sale>>), <<1>>)
            parcelled == add_first_parcel_id(add_price_per_sqm(aggregated.table))
        IN  add_region_information(parcelled, load_region_mapping(RegularInsee))[1] ]

\* The tables that hold counts[k] times the element k, for every k of the
\* domain of counts, in every order of their rows.
RECURSIVE Arrangements(_)
Arrangements(counts) ==
    IF \A k \in DOMAIN counts : counts[k] = 0 THEN {<<>>}
    ELSE UNION { { <<k>> \o t : t \in Arrangements([counts EXCEPT ![k] = @ - 1]) } :
                     k \in {k \in DOMAIN counts : counts[k] > 0} }

\* Largest number of sales of commune 75101 in a table.
MaxCommuneRows == 10

\* Tables of sales of commune 75101 in every order of their rows: ordinary
\* sales at one price, with or without 3 sales at the other price, which
\* separate the quartiles of a commune of 10 rows, and with at most one
\* other sale: the sale far above the others or the sale of 8 rooms among
\* sales at one or two prices, the sale the hard thresholds remove, the
\* sale of another commune or the sale without commune among sales at one
\* price.
CommuneTables ==
    UNION { Arrangements([k \in {SaleA, SaleC, m[3]} |->
                IF k = SaleA THEN m[1] ELSE IF k = SaleC THEN m[2] ELSE 1]) :
            m \in { m \in (0..MaxCommuneRows) \X {0, 3}
                            \X {SaleA, SaleD, SaleE, SaleT, SaleY, SaleN} :
                        /\ m[1] + m[2] + (IF m[3] \in {SaleD, SaleE, SaleT} THEN 1 ELSE 0)
                               <= MaxCommuneRows
                        /\ (m[3] \in {SaleT, SaleY, SaleN} => m[2] = 0) } }

ThresholdTables ==
    UNION { {<<p>>, <<SaleA, p>>, <<p, SaleA>>} : p \in ThresholdSales }

\* remove_outliers on a table of its input: the rows are those of one-house
\* sales, alike in every column the stage does not read.
InitOutliers ==
    \E sales \in CommuneTables \cup ThresholdTables :
        Reaches("regioned", <<>>, <<>>,
                [i \in Idx(sales) |-> RegionedRows[sales[i]]], <<>>)

SpecOutliers == InitOutliers /\ [][RemoveExtremeOutliers \/ RemoveIqrOutliers]_vars

\* The hard thresholds, read off a row.
InsideThresholds(r) ==
    /\ ~IsNull(r.surface_batie_totale)
    /\ RLt(R(5), r.surface_batie_totale[1]) /\ RLt(r.surface_batie_totale[1], R(1000))
    /\ ~IsNull(r.valeur_fonciere)
    /\ RLt(R(10000), r.valeur_fonciere[1]) /\ RLt(r.valeur_fonciere[1], R(10000000))
    /\ ~IsNull(r.prix_m2)
    /\ RLt(R(400), r.prix_m2[1]) /\ RLt(r.prix_m2[1], R(30000))
    /\ ~IsNull(r.nombre_pieces_principales)
    /\ 0 < r.nombre_pieces_principales[1] /\ r.nombre_pieces_principales[1] < 20

\* C5: remove_extreme_outliers keeps a row if and only if
\* 5 < surface_batie_totale < 1000, 10000 < valeur_fonciere < 10000000,
\* 400 < prix_m2 < 30000 and 0 < nombre_pieces_principales < 20, a value
\* equal to a bound being removed; the kept rows are unchanged, in order.
C5_KeepsRowsInsideThresholds ==
    stage = "thresholded" =>
        df = Rows(prev, {i \in Idx(prev) : InsideThresholds(prev[i])})

\* A row of exactly 5 m2, inside every other threshold, has been removed
\* next to a row that is kept.
C5_Witness ==
    /\ stage = "thresholded"
    /\ Len(df) = 1 /\ Len(prev) = 2
    /\ \E i \in Idx(prev) :
          /\ prev[i] \notin Range(df)
          /\ prev[i].surface_batie_totale = F(5)
          /\ InsideThresholds([prev[i] EXCEPT !.surface_batie_totale = F(6)])

\* The rows of commune c in the table entering the stage; the rows without
\* code_commune are those of c = NULL, which group_by keeps as one group.
CommuneRows(c) == {i \in Idx(prev) : prev[i].code_commune = c}

InLargeCommune(r) ==
    ~IsNull(r.code_commune) /\ Cardinality(CommuneRows(r.code_commune)) >= 10

InSmallCommune(r) == Cardinality(CommuneRows(r.code_commune)) < 10

\* Quartile k of metric m over the rows of commune c entering the stage.
Quartile(c, m, k) ==
    LET rows == Rows(prev, CommuneRows(c))
    IN  quantile([i \in Idx(rows) |-> iqr_cols(rows[i])[m]], k)[1]

\* Q1 - 1.5 * IQR and Q3 + 1.5 * IQR of metric m in commune c.
LowerFence(c, m) ==
    LET q1 == Quartile(c, m, 1)
        q3 == Quartile(c, m, 3)
    IN  RSub(q1, RMul(Rat(3, 2), RSub(q3, q1)))
UpperFence(c, m) ==
    LET q1 == Quartile(c, m, 1)
        q3 == Quartile(c, m, 3)
    IN  RAdd(q3, RMul(Rat(3, 2), RSub(q3, q1)))

\* C6: the rows of every commune that has fewer than 10 rows in the table
\* entering remove_iqr_outliers are all in its output, unchanged and in
\* their order, whatever their values, the value of code_commune included.
C6_SmallCommunesPassThrough ==
    stage = "filtered" =>
        SelectSeq(prev, InSmallCommune) = SelectSeq(df, InSmallCommune)

\* C7: every row that survives remove_iqr_outliers in a commune of 10 rows
\* or more has each of valeur_fonciere, prix_m2, surface_batie_totale and
\* nombre_pieces_principales strictly inside the commune's fence
\* (Q1 - 1.5*IQR, Q3 + 1.5*IQR), the quartiles being those of all the rows
\* of the commune that entered the stage.
C7_SurvivorsInsideFences ==
    stage = "filtered" =>
        \A j \in Idx(df) :
            InLargeCommune(df[j]) =>
                \A m \in 1..4 :
                    /\ ~IsNull(iqr_cols(df[j])[m])
                    /\ RLt(LowerFence(df[j].code_commune, m), iqr_cols(df[j])[m][1])
                    /\ RLt(iqr_cols(df[j])[m][1], UpperFence(df[j].code_commune, m))

\* A commune of 10 rows or more keeps rows and loses one whose declared
\* price is above the fence.
C7_Witness ==
    /\ stage = "filtered"
    /\ \E i, j \in Idx(prev) :
          /\ InLargeCommune(prev[i])
          /\ prev[j].code_commune = prev[i].code_commune
          /\ prev[i] \in Range(df)
          /\ prev[j] \notin Range(df)
          /\ RLt(UpperFence(prev[j].code_commune, 1), prev[j].valeur_fonciere[1])

\* C8: in a commune of 10 rows or more, a row whose four metrics all lie
\* in the closed interval [Q1 - 1.5*IQR, Q3 + 1.5*IQR] of the commune (a
\* value on a bound included, and Q1 = Q3 included) survives
\* remove_iqr_outliers.
C8_ClosedIntervalSurvives ==
    stage = "filtered" =>
        \A i \in Idx(prev) :
            ( /\ InLargeCommune(prev[i])
              /\ \A m \in 1..4 :
                    /\ ~IsNull(iqr_cols(prev[i])[m])
                    /\ ~RLt(iqr_cols(prev[i])[m][1], LowerFence(prev[i].code_commune, m))
                    /\ ~RLt(UpperFence(prev[i].code_commune, m), iqr_cols(prev[i])[m][1]) )
            => prev[i] \in Range(df)

-----------------------------------------------------------------------------
(* remove_outliers on communes that lose rows to the hard thresholds       *)

\* The survivors of a commune of 10 rows or more lie strictly inside the
\* fences of the rows of the commune that entered the IQR stage.
SurvivorsInsideFences ==
    \A j \in Idx(df) :
        InLargeCommune(df[j]) =>
            \A m \in 1..4 :
                /\ RLt(LowerFence(df[j].code_commune, m), iqr_cols(df[j])[m][1])
                /\ RLt(iqr_cols(df[j])[m][1], UpperFence(df[j].code_commune, m))

\* C24: the IQR stage runs on the table the hard thresholds left: its
\* row counts and quartiles are those of the rows that passed them, so a
\* commune of 10 rows or more of which fewer than 10 passed keeps every
\* row that passed.
C24_IqrAfterThresholds ==
    /\ [][ stage = "thresholded" =>
              /\ stage' = "filtered"
              /\ df = Rows(prev, {i \in Idx(prev) : InsideThresholds(prev[i])})
              /\ \A c \in {prev[i].code_commune : i \in Idx(prev)} :
                    LET InC(r) == r.code_commune = c
                    IN  (Len(SelectSeq(prev, InC)) >= 10 /\ Len(SelectSeq(df, InC)) < 10)
                            => SelectSeq(df', InC) = SelectSeq(df, InC)
          ]_vars
    /\ [](stage = "filtered" => SurvivorsInsideFences)

\* Of the 10 sales of the commune 9, all alike, have passed the
\* thresholds: the IQR stage, which would keep none of them had it counted
\* the 10, keeps the 9.
C24_Witness ==
    /\ stage = "thresholded"
    /\ Len(prev) = 10
    /\ \A i \in Idx(prev) : prev[i].code_commune = Some("75101")
    /\ Len(df) = 9
    /\ remove_iqr_outliers(df) = df
    /\ remove_iqr_outliers(prev) = <<>>

-----------------------------------------------------------------------------
(* compute_time_adjusted_price on its own inputs (specification SpecTime)  *)

\* A row as the outlier stage hands it on.
TimeTemplate ==
    LET parcelled ==
            add_first_parcel_id(add_price_per_sqm(
                aggregate_dvf(SalesFile(<<SaleA>>), <<1>>).table))
    IN  remove_iqr_outliers(remove_extreme_outliers(
            add_region_information(parcelled, load_region_mapping(RegularInsee))))[1]

TimeCase(departement, type, date, prix) ==
    [ code_departement |-> departement, type_local |-> type,
      date_mutation |-> date, prix_m2 |-> prix ]

\* The columns the stage reads: sales of houses of department 75 in the
\* years around the reference year or undated, sales without department
\* and sales of flats.  prix_m2 is never null after remove_extreme_outliers;
\* the value 0 reaches the guard of the division.
TimeCases ==
    { TimeCase(Some("75"), Some("Maison"), d, F(p)) :
        d \in {NULL, Some(<<2024, 3, 15>>), Some(<<2025, 1, 10>>), Some(<<2026, 2, 1>>)},
        p \in {0, 1000, 3000} }
    \cup { TimeCase(NULL, Some("Maison"), d, F(p)) :
        d \in {Some(<<2024, 3, 15>>), Some(<<2025, 1, 10>>)}, p \in {1000, 3000} }
    \cup { TimeCase(Some("75"), Some("Appartement"), Some(<<2024, 3, 15>>), F(1000)),
           TimeCase(Some("75"), Some("Appartement"), Some(<<2025, 1, 10>>), F(3000)) }

\* Largest number of rows of a table handed to the stage.
MaxTimeRows == 3

InitTime ==
    \E cases \in SeqsUpTo(TimeCases, MaxTimeRows) :
        Reaches("filtered", <<>>, <<>>,
                [i \in Idx(cases) |-> With(TimeTemplate, cases[i])], <<>>)

SpecTime == InitTime /\ [][ComputeTimeAdjustedPrice]_vars

\* The rows that entered the stage in the department, of the type and in
\* the year y of row r.
YearRows(r, y) ==
    {i \in Idx(prev) :
        /\ prev[i].code_departement = r.code_departement
        /\ prev[i].type_local = r.type_local
        /\ prev[i].date_mutation # NULL
        /\ prev[i].date_mutation[1][1] = y}

YearMedian(r, y) == median(Column(Rows(prev, YearRows(r, y)), "prix_m2"))[1]

\* The years in which the department and type of r have rows.
ObservedYears(r) == {y \in 2020..2030 : YearRows(r, y) # {}}

TargetYear(r) ==
    IF YearRows(r, ReferenceYear) # {} THEN ReferenceYear ELSE Max(ObservedYears(r))

\* A factor is found for r when its department, type and date are known.
HasFactor(r) ==
    ~IsNull(r.code_departement) /\ ~IsNull(r.type_local) /\ ~IsNull(r.date_mutation)

Factor(r) ==
    IF HasFactor(r) /\ RLt(R(0), YearMedian(r, r.date_mutation[1][1]))
    THEN RDiv(YearMedian(r, TargetYear(r)), YearMedian(r, r.date_mutation[1][1]))
    ELSE R(1)

\* C9: compute_time_adjusted_price gives every row, in place,
\* prix_m2_ajuste = prix_m2 * factor, the factor being the median of
\* prix_m2 of the row's (department, type) in the reference year, or in
\* the most recent year with rows when the reference year has none,
\* divided by the median of the row's own (department, type, year); the
\* factor is 1 when that year median is not strictly positive or when no
\* target exists for the row.
C9_AdjustedByMedianRatio ==
    stage = "adjusted" =>
        /\ Len(df) = Len(prev)
        /\ \A i \in Idx(df) :
              /\ df[i].prix_m2 = prev[i].prix_m2
              /\ df[i].prix_m2_ajuste = Some(RMul(prev[i].prix_m2[1], Factor(prev[i])))

\* A sale of a year whose pair has no sale in the reference year is
\* adjusted to the most recent year, by a factor other than 1.
C9_Witness ==
    /\ stage = "adjusted"
    /\ \E i \in Idx(df) :
          /\ HasFactor(prev[i])
          /\ YearRows(prev[i], ReferenceYear) = {}
          /\ TargetYear(prev[i]) = 2026
          /\ Factor(prev[i]) = R(3)
          /\ df[i].prix_m2_ajuste = F(3000)

\* C10: after compute_time_adjusted_price prix_m2_ajuste is non-null in
\* every row whose prix_m2 is non-null, and equals prix_m2 in every row
\* for which no factor is found, rows with a null department, type or
\* date included.
C10_DefinedAndUnadjustedWithoutFactor ==
    stage = "adjusted" =>
        \A i \in Idx(df) :
            /\ ~IsNull(df[i].prix_m2) => ~IsNull(df[i].prix_m2_ajuste)
            /\ ~HasFactor(df[i]) => df[i].prix_m2_ajuste = df[i].prix_m2

\* A sale without department stays at its price while a sale of the same
\* table is adjusted.
C10_Witness ==
    /\ stage = "adjusted"
    /\ \E i, j \in Idx(df) :
          /\ IsNull(df[i].code_departement)
          /\ df[i].prix_m2_ajuste = df[i].prix_m2
          /\ ~IsNull(df[i].prix_m2)
          /\ HasFactor(df[j])
          /\ df[j].prix_m2_ajuste # df[j].prix_m2

-----------------------------------------------------------------------------
(* spatial_join_iris on its own inputs (specification SpecSpatial)         *)

\* Sales at two points of the central meridian, 46.5 N and 47 N, and at the
\* point of Paris of the tests, 2.3376 E 48.8606 N.
LocatedSales ==
    { [longitude |-> F(3), latitude |-> Some(Rat(93, 2))],
      [longitude |-> F(3), latitude |-> F(47)],
      [longitude |-> Some(Rat(23376, 10000)), latitude |-> Some(Rat(488606, 10000))] }

\* Largest number of rows of a table handed to the spatial join.
MaxSpatialRows == 3

\* Largest chunk size tried besides the default one.
MaxChunkSize == 3

ChunkSizes == (1..MaxChunkSize) \cup {DefaultChunkSize}

\* The run as process_dvf hands the table of the file to spatial_join_iris,
\* the groups of the file listed in any order.
InitSpatial ==
    \E sales \in SeqsUpTo(LocatedSales, MaxSpatialRows) \ {<<>>} :
      \E order \in Orders(Len(sales)) :
        LET mapping == load_region_mapping(RegularInsee)
            aggregated == aggregate_dvf(SalesFile(sales), order)
            parcelled == add_first_parcel_id(add_price_per_sqm(aggregated.table))
            filtered ==
                remove_iqr_outliers(remove_extreme_outliers(
                    add_region_information(parcelled, mapping)))
        IN  /\ aggregated.error = ""
            /\ Reaches("adjusted", SalesFile(sales), filtered,
                       compute_time_adjusted_price(filtered, ReferenceYear), mapping)

SpecSpatial ==
    InitSpatial /\ [][\E chunk_size \in ChunkSizes : SpatialJoin(chunk_size)]_vars

\* spatial_join_iris called on any table: one the run hands to it, or the
\* table without rows.
InitSpatialInputs ==
    \/ InitSpatial
    \/ Reaches("adjusted", <<>>, <<>>, <<>>, load_region_mapping(RegularInsee))

SpecSpatialInputs ==
    InitSpatialInputs /\ [][\E chunk_size \in ChunkSizes : SpatialJoin(chunk_size)]_vars

\* The projected point of a row.
PointOf(r) == to_crs(r.longitude, r.latitude)

\* The polygons of the layer read, by position, in whose interior the point
\* of row r lies.
Containing(r) ==
    {j \in Idx(iris) :
        LET g == iris[j].geometry
            pt == PointOf(r)[1]
        IN  /\ g.xmin < pt[1] /\ pt[1] < g.xmax
            /\ g.ymin < pt[2] /\ pt[2] < g.ymax}

\* The code and name the layer gives to row r: those of the first polygon
\* that contains its point, null when none does.
Assignment(r) ==
    IF Containing(r) = {} THEN [code_iris |-> NULL, nom_iris |-> NULL]
    ELSE [code_iris |-> iris[Min(Containing(r))].code_iris,
          nom_iris |-> iris[Min(Containing(r))].nom_iris]

\* C11: for every table it is given and every chunk size of 1 or more,
\* spatial_join_iris returns: it returns the rows it was given, in their
\* order, every column they had unchanged, and two more columns code_iris
\* and nom_iris; row i carries the assignment of the point of row i.
C11_RowsKeptAndAligned ==
    /\ stage # "failed"
    /\ stage = "joined" =>
          /\ Len(df) = Len(prev)
          /\ \A i \in Idx(df) :
                /\ DOMAIN df[i] = DOMAIN prev[i] \cup {"code_iris", "nom_iris"}
                /\ \A c \in DOMAIN prev[i] : df[i][c] = prev[i][c]
                /\ df[i].code_iris = Assignment(prev[i]).code_iris
                /\ df[i].nom_iris = Assignment(prev[i]).nom_iris

\* C12: a row whose point lies strictly inside exactly one polygon of the
\* layer receives the code_iris and nom_iris of that polygon, a row whose
\* point lies outside every polygon receives null for both, and the join
\* does not fail on an unmatched point.
C12_OnePolygonOrNull ==
    /\ stage # "failed"
    /\ stage = "joined" =>
          \A i \in Idx(df) :
              /\ \A j \in Idx(iris) :
                    Containing(prev[i]) = {j} =>
                        /\ df[i].code_iris = iris[j].code_iris
                        /\ df[i].nom_iris = iris[j].nom_iris
              /\ Containing(prev[i]) = {} =>
                    IsNull(df[i].code_iris) /\ IsNull(df[i].nom_iris)

\* In a layer of three polygons one row lies in the second polygon only
\* and another row lies in none.
C12_Witness ==
    /\ stage = "joined"
    /\ Len(iris) = 3
    /\ \E i, k \in Idx(df) :
          /\ Containing(prev[i]) = {2}
          /\ df[i].code_iris = iris[2].code_iris
          /\ Containing(prev[k]) = {}
          /\ IsNull(df[k].code_iris)

\* C13: the columns code_iris and nom_iris do not depend on the chunk
\* size: the table returned is the one every chunk size of ChunkSizes
\* returns, and the one a single chunk holding all the rows returns.
C13_ChunkSizeIndependent ==
    stage = "joined" =>
        \A c \in ChunkSizes \cup {Len(prev)} :
            /\ ~length_mismatch(prev, iris, c)
            /\ spatial_join_iris(prev, iris, c) = df

\* Three rows with different assignments: chunks of 2 rows leave a last
\* chunk of one row.
C13_Witness ==
    /\ stage = "joined"
    /\ Len(prev) = 3
    /\ n_chunks(Len(prev), 2) = 2
    /\ df[1].code_iris # df[3].code_iris
    /\ df[2].code_iris # df[3].code_iris
    /\ df[1].code_iris # df[2].code_iris

\* C14: a row whose point lies in several polygons appears once in the
\* result, and its code_iris and nom_iris are both those of the first of
\* these polygons in the order of the join (the order of the layer).
C14_FirstMatchKept ==
    stage = "joined" =>
        /\ Len(df) = Len(prev)
        /\ \A i \in Idx(df) :
              Cardinality(Containing(prev[i])) >= 2 =>
                  /\ df[i].id_mutation = prev[i].id_mutation
                  /\ df[i].code_iris = iris[Min(Containing(prev[i]))].code_iris
                  /\ df[i].nom_iris = iris[Min(Containing(prev[i]))].nom_iris

\* A point in two polygons has received the code and name of the first.
C14_Witness ==
    /\ stage = "joined"
    /\ \E i \in Idx(df) :
          /\ Containing(prev[i]) = {1, 2}
          /\ df[i].code_iris = iris[1].code_iris
          /\ df[i].nom_iris = iris[1].nom_iris
          /\ df[i].code_iris # iris[2].code_iris

\* C28: whatever the layer and the chunk size, the table joined for a
\* chunk has exactly one row per point of the chunk, in the order of the
\* points, so the assertion on its length never fires.
C28_OneJoinedRowPerPoint ==
    /\ error # "AssertionError"
    /\ stage = "adjusted" =>
          \A layer \in IrisLayers, chunk_size \in ChunkSizes :
              \A c \in 1..n_chunks(Len(df), chunk_size) :
                  LET chunk == chunk_of(df, c - 1, chunk_size)
                      joined == join_chunk(chunk, layer)
                  IN  /\ Len(joined) = Len(chunk)
                      /\ \A k \in Idx(joined) : joined[k].chunk_idx = k - 1

\* A table with a point in two polygons of the layer and a point in none
\* has been joined.
C28_Witness ==
    /\ stage = "joined"
    /\ error = ""
    /\ Len(iris) = 3
    /\ \E i, k \in Idx(prev) :
          /\ Cardinality(Containing(prev[i])) = 2
          /\ Containing(prev[k]) = {}

\* C16: the output file changes only in the step that follows the last
\* stage, and then holds the table that stage returned; a stage that
\* raises ends the run: the file is left as it was, no stage runs after
\* the failure and none is run again.
C16_WrittenOnlyAfterAllStages ==
    [][ /\ parquet' # parquet =>
              (stage = "joined" /\ stage' = "written" /\ error = "" /\ parquet' = <<df>>)
        /\ stage' = "failed" => (parquet' = parquet /\ parquet = <<>>)
        /\ stage # "failed"
        /\ stage' # "start" ]_vars

\* A run on a file with rows has passed the consolidation, has failed in a
\* later stage and has written nothing.
C16_Witness ==
    /\ stage = "failed"
    /\ error = "ZeroDivisionError"
    /\ Len(raw) > 0
    /\ parquet = <<>>

\* C17: every run on the same raw file, region lookup and IRIS layer
\* writes the same table, rows in the same order: the table the stages
\* give when every group_by lists its groups in the order of the input.
C17_SameOutputOnEveryRun ==
    stage = "written" =>
        LET parcelled ==
                add_first_parcel_id(add_price_per_sqm(
                    aggregate_dvf(raw, [i \in Idx(raw) |-> i]).table))
            filtered == remove_iqr_outliers(remove_extreme_outliers(
                            add_region_information(parcelled, region_mapping)))
            adjusted == compute_time_adjusted_price(filtered, ReferenceYear)
        IN  parquet = <<spatial_join_iris(adjusted, iris, DefaultChunkSize)>>

\* The rows of the raw file whose fields all parse as DVF_SCHEMA declares.
WellFormed(file) == SelectSeq(file, LAMBDA r : r.bad = {})

\* C18: a raw row with a field that cannot be coerced to its type never
\* makes the run fail on that field, and is dropped at load time: the
\* table loaded is the table of the well-formed rows.
C18_MalformedRowsDroppedAtLoad ==
    /\ error # "ComputeError"
    /\ stage = "loaded" => df = scan_csv(WellFormed(raw))

\* The rows of the lookup table for the department of the row r.
RegionsOf(r) ==
    {j \in Idx(region_mapping) :
        /\ ~IsNull(r.code_departement)
        /\ region_mapping[j].code_departement = r.code_departement}

\* C19: add_region_information returns one row per input row, in order,
\* with the columns it had; a row whose department is in the lookup
\* carries its code_region and nom_region, any other row is kept with
\* both null.
C19_OneRowPerInputRow ==
    stage = "regioned" =>
        /\ Len(df) = Len(prev)
        /\ \A i \in Idx(df) :
              /\ DOMAIN df[i] = DOMAIN prev[i] \cup {"code_region", "nom_region"}
              /\ \A c \in DOMAIN prev[i] : df[i][c] = prev[i][c]
              /\ \A j \in RegionsOf(prev[i]) :
                    /\ df[i].code_region = region_mapping[j].code_region
                    /\ df[i].nom_region = region_mapping[j].nom_region
              /\ RegionsOf(prev[i]) = {} =>
                    (IsNull(df[i].code_region) /\ IsNull(df[i].nom_region))

\* The rows of the table entering reduce_data with the key of the row r.
Members(r) ==
    {i \in Idx(prev) : /\ prev[i].id_mutation = r.id_mutation
                       /\ prev[i].numero_disposition = r.numero_disposition}

\* The rooms of the rows S of that table, a null count adding nothing.
RECURSIVE Rooms(_)
Rooms(S) ==
    IF S = {} THEN 0
    ELSE LET i == CHOOSE x \in S : TRUE
             n == prev[i].nombre_pieces_principales
         IN  (IF IsNull(n) THEN 0 ELSE n[1]) + Rooms(S \ {i})

\* C20: reduce_data returns exactly one row per distinct
\* (id_mutation, numero_disposition); its scalar columns, type_local
\* included, are those of the first row of the group in input order, and
\* nombre_pieces_principales is the sum over the group.
C20_OneRowPerKeyFirstValues ==
    stage = "reduced" =>
        /\ \A i \in Idx(prev) : Cardinality({j \in Idx(df) : i \in Members(df[j])}) = 1
        /\ \A j \in Idx(df) :
              /\ Members(df[j]) # {}
              /\ LET first == prev[CHOOSE i \in Members(df[j]) :
                                      \A k \in Members(df[j]) : i <= k]
                 IN  /\ \A c \in {"date_mutation", "nature_mutation", "valeur_fonciere",
                                   "code_commune", "code_departement", "type_local",
                                   "longitude", "latitude", "has_dependency",
                                   "surface_batie_totale"} : df[j][c] = first[c]
                     /\ df[j].nombre_pieces_principales = Some(Rooms(Members(df[j])))

\* A disposition of a house of 4 rooms followed by a flat of 2 rooms has
\* been reduced to one row.
C20_Witness ==
    /\ stage = "reduced"
    /\ Len(prev) = 2
    /\ Len(df) = 1
    /\ prev[1].type_local = Some("Maison")
    /\ prev[2].type_local = Some("Appartement")
    /\ df[1].type_local = Some("Maison")
    /\ df[1].nombre_pieces_principales = Some(6)

\* The constituent rows of the consolidated row r, in ingestion order.
ConstituentRows(r) == Rows(prev, Members(r))

\* The column col of the consolidated row r is the collection of the
\* values of col in its constituent rows, one per row and in their order.
Collected(r, col) ==
    /\ Len(r[col]) = Len(ConstituentRows(r))
    /\ \A n \in Idx(ConstituentRows(r)) : r[col][n] = ConstituentRows(r)[n][col]

\* C21 as stated: parcel id, built surface, land use and allocated price
\* of a consolidated row are position-aligned collections over its
\* constituent rows, the property type has one element per constituent
\* row as they have, and id_parcelle_unique is the first parcel id.
C21_PerPropertyCollections ==
    /\ stage = "reduced" =>
          \A j \in Idx(df) :
              /\ \A col \in {"id_parcelle", "surface_reelle_bati", "nature_culture",
                              "nature_culture_speciale", "prix_de_vente"} :
                      Collected(df[j], col)
              /\ Len(df[j].type_local) = Len(df[j].id_parcelle)
    /\ stage = "parcelled" =>
          \A j \in Idx(df) : df[j].id_parcelle_unique = df[j].id_parcelle[1]

\* C21 amended: the same for parcel id, built surface, land use and
\* allocated price; type_local is no collection, it is the type of the
\* first constituent row.
C21_CollectionsButType ==
    /\ stage = "reduced" =>
          \A j \in Idx(df) :
              /\ \A col \in {"id_parcelle", "surface_reelle_bati", "nature_culture",
                              "nature_culture_speciale", "prix_de_vente"} :
                      Collected(df[j], col)
              /\ df[j].type_local = ConstituentRows(df[j])[1].type_local
    /\ stage = "parcelled" =>
          \A j \in Idx(df) : df[j].id_parcelle_unique = df[j].id_parcelle[1]

\* A disposition of a house and a flat on two parcels has been reduced and
\* has received its first parcel id.
C21_Witness ==
    /\ stage = "parcelled"
    /\ Len(df) = 1
    /\ df[1].id_parcelle = <<Some("75101000AB0001"), Some("75101000AB0002")>>
    /\ df[1].surface_reelle_bati = <<F(100), F(60)>>
    /\ df[1].type_local = Some("Maison")
    /\ df[1].id_parcelle_unique = Some("75101000AB0001")

\* The table t with every has_dependency flag negated.
Negated(t) ==
    [i \in Idx(t) |-> [t[i] EXCEPT !.has_dependency = Some(~t[i].has_dependency[1])]]

\* No filter reads the flag: on the table with the flags negated it keeps
\* the same rows.
FlagBlindFilters ==
    /\ stage = "eligible" => drop_unwanted_values(Negated(prev)) = Negated(df)
    /\ stage = "thresholded" => remove_extreme_outliers(Negated(prev)) = Negated(df)
    /\ stage = "filtered" => remove_iqr_outliers(Negated(prev)) = Negated(df)

\* C22 as stated: the flag of a consolidated row is true exactly when the
\* raw file has a row of type Dépendance in its disposition, on whatever
\* parcel and under whatever land use; and no filter reads the flag.
C22_FlagOfDisposition ==
    /\ stage = "reduced" =>
          \A j \in Idx(df) :
              df[j].has_dependency =
                  Some(\E i \in Idx(raw) :
                          /\ raw[i].id_mutation = df[j].id_mutation
                          /\ raw[i].numero_disposition = df[j].numero_disposition
                          /\ raw[i].type_local = Some("Dépendance"))
    /\ FlagBlindFilters

\* The rows left by the removal of duplicate lines.
Deduplicated == remove_duplicate_lines(fill_nature_culture_nulls(scan_csv(raw)))

\* C22 amended: the flag of a consolidated row is that of its first
\* eligible row: true exactly when a row of type Dépendance left by the
\* removal of duplicate lines has the mutation, disposition, parcel, land
\* use and nature of that row; and no filter reads the flag.
C22_FlagOfFirstParcel ==
    /\ stage = "reduced" =>
          \A j \in Idx(df) :
              df[j].has_dependency =
                  Some(\E i \in Idx(Deduplicated) :
                          /\ \A c \in {"id_mutation", "numero_disposition", "id_parcelle",
                                        "nature_culture", "nature_culture_speciale",
                                        "nature_mutation"} :
                                Deduplicated[i][c] = ConstituentRows(df[j])[1][c]
                          /\ Deduplicated[i].type_local = Some("Dépendance"))
    /\ FlagBlindFilters

\* A house sold with a dependency on its parcel has been reduced to one
\* flagged row.
C22_Witness ==
    /\ stage = "reduced"
    /\ Len(raw) = 2
    /\ raw[2].type_local = Some("Dépendance")
    /\ Len(df) = 1
    /\ df[1].has_dependency = Some(TRUE)

\* C26: every row that leaves add_price_per_sqm has id_mutation,
\* numero_disposition, longitude and latitude, a valeur_fonciere above
\* 100, a surface_batie_totale above 0, a prix_m2 above 0 and the type
\* Maison or Appartement.
C26_CriticalColumnsDefined ==
    stage = "priced" =>
        \A i \in Idx(df) :
            /\ ~IsNull(df[i].id_mutation)
            /\ ~IsNull(df[i].numero_disposition)
            /\ ~IsNull(df[i].longitude)
            /\ ~IsNull(df[i].latitude)
            /\ ~IsNull(df[i].valeur_fonciere)
            /\ RLt(R(100), df[i].valeur_fonciere[1])
            /\ ~IsNull(df[i].surface_batie_totale)
            /\ RLt(R(0), df[i].surface_batie_totale[1])
            /\ ~IsNull(df[i].prix_m2)
            /\ RLt(R(0), df[i].prix_m2[1])
            /\ df[i].type_local \in {Some("Maison"), Some("Appartement")}

\* Of a sale of a house without built surface and a regular sale of the
\* same disposition, the regular one has been consolidated and priced.
C26_Witness ==
    /\ stage = "priced"
    /\ Len(raw) = 2
    /\ raw[1].surface_reelle_bati = F(0)
    /\ raw[2].id_mutation = raw[1].id_mutation
    /\ Len(df) = 1
    /\ df[1].surface_batie_totale = F(100)
    /\ df[1].prix_m2 = F(2000)

\* C27: the table reduce_data returns has id_mutation and
\* numero_disposition in every row and as many distinct keys
\* id_mutation + "_" + numero_disposition as rows, so the check of
\* aggregate_dvf passes and no run ends with RuntimeError.
C27_ReductionCheckPasses ==
    /\ error # "RuntimeError"
    /\ stage = "reduced" =>
          /\ \A i \in Idx(df) :
                ~IsNull(df[i].id_mutation) /\ ~IsNull(df[i].numero_disposition)
          /\ \A i, j \in Idx(df) :
                ( /\ df[i].id_mutation[1] \o "_" \o cast_utf8(df[i].numero_disposition[1])
                        = df[j].id_mutation[1] \o "_" \o cast_utf8(df[j].numero_disposition[1])
                ) => i = j

\* Two dispositions of one mutation have passed the check.
C27_Witness ==
    /\ stage = "aggregated"
    /\ Len(df) = 2
    /\ df[1].id_mutation = df[2].id_mutation
    /\ df[1].numero_disposition # df[2].numero_disposition

\* C29: a stage that receives an empty table returns an empty table and
\* does not raise: no run ends on the division by the number of rows.
C29_EmptyTablesPassThrough ==
    /\ (stage \in {"thresholded", "filtered", "adjusted", "joined"} /\ prev = <<>>)
          => df = <<>>
    /\ ~(stage = "failed" /\ error = "ZeroDivisionError" /\ df = <<>>)

-----------------------------------------------------------------------------
(* The run on files of sales of several years and on files of one       *)
(* disposition of several properties (specification SpecFiles)             *)

\* Largest number of sales of a file of SpecFiles.
MaxFileSales == 3

\* Largest number of land-use codes recorded against a parcel.
MaxLandUses == 2

\* The whole run on a file of one-house sales: sales of 2024 at 2000 and
\* at 1000 per m2, a sale of 2024 at 40000 per m2, above the hard
\* threshold, and a sale of 2025 at 3000 per m2.
\* Or on the file of one disposition: a house of 100 m2 on a first parcel,
\* with or without its latitude, with or without a dependency of 20 m2 on
\* that parcel, with or without a flat of 60 m2 on a second parcel, every
\* property repeated once per land-use code of its parcel (by code or by
\* property), with or without a row of bare land on a third parcel, before
\* or after the others.
InitFiles ==
    \/ \E sales \in SeqsUpTo(
            { [valeur_fonciere |-> F(200000)],
              [valeur_fonciere |-> F(100000)],
              [valeur_fonciere |-> F(4000000)],
              [valeur_fonciere |-> F(300000), date_mutation |-> Some(<<2025, 1, 10>>)] },
            MaxFileSales) :
          Reaches("start", SalesFile(sales), <<>>, <<>>, <<>>)
    \/ \E uses \in 1..MaxLandUses, flat_uses \in 0..MaxLandUses, located \in BOOLEAN,
           dependency \in BOOLEAN, by_code \in BOOLEAN, land \in 0..2 :
          LET LandUses == <<"sols", "jardins", "terres", "vergers">>
              Under(r, n) == [r EXCEPT !.nature_culture = Some(LandUses[n])]
              House == IF located THEN BaseRow ELSE [BaseRow EXCEPT !.latitude = NULL]
              Dependency == [House EXCEPT !.type_local = Some("Dépendance"),
                                            !.surface_reelle_bati = F(20),
                                            !.nombre_pieces_principales = Some(0)]
              Flat == [BaseRow EXCEPT !.id_parcelle = Some("75101000AB0002"),
                                      !.type_local = Some("Appartement"),
                                      !.surface_reelle_bati = F(60),
                                      !.nombre_pieces_principales = Some(2)]
              Land == [BaseRow EXCEPT !.id_parcelle = Some("75101000AB0003"),
                                      !.type_local = NULL,
                                      !.surface_reelle_bati = NULL,
                                      !.nombre_pieces_principales = NULL,
                                      !.nature_culture = Some("landes")]
              properties == IF dependency THEN <<House, Dependency>> ELSE <<House>>
              first_parcel ==
                  IF by_code
                  THEN Flatten([n \in 1..uses |->
                          [k \in Idx(properties) |-> Under(properties[k], n)]])
                  ELSE Flatten([k \in Idx(properties) |->
                          [n \in 1..uses |-> Under(properties[k], n)]])
              second_parcel == [n \in 1..flat_uses |-> Under(Flat, n)]
          IN  Reaches("start",
                      (IF land = 1 THEN <<Land>> ELSE <<>>) \o first_parcel
                          \o second_parcel \o (IF land = 2 THEN <<Land>> ELSE <<>>),
                      <<>>, <<>>, <<>>)

SpecFiles == InitFiles /\ [][Next]_vars

\* Largest number of sales of a file of SpecStages.
MaxStageSales == 2

\* The whole run on a file of one-house sales: a sale of 2024 at 2000 per
\* m2, a sale of 2024 at 40000 per m2, above the hard threshold, and a
\* sale of 2025 at 3000 per m2.
\* Or the stages that follow add_region_information on a table of 10 sales
\* of one commune, the rows in any arrangement: in 2024 a sale at 2000 per
\* m2 and a sale at 20000 per m2, inside the hard thresholds and far above
\* the others, in 2025 two sales at 2000 and six at 3200 per m2.
InitStages ==
    \/ \E sales \in SeqsUpTo(
            { [valeur_fonciere |-> F(200000)],
              [valeur_fonciere |-> F(4000000)],
              Sold2025([valeur_fonciere |-> F(300000)]) },
            MaxStageSales) :
          Reaches("start", SalesFile(sales), <<>>, <<>>, <<>>)
    \/ \E sales \in Arrangements(
                        [k \in {SaleA, SaleD, Sold2025(SaleA), Sold2025(SaleC)} |->
                            CASE k = Sold2025(SaleA) -> 2
                              [] k = Sold2025(SaleC) -> 6
                              [] OTHER -> 1]) :
          Reaches("regioned", <<>>, <<>>,
                  [i \in Idx(sales) |-> RegionedRows[sales[i]]],
                  load_region_mapping(RegularInsee))

SpecStages == InitStages /\ [][Next]_vars

\* The table the stages of the run, applied once each in their order to
\* the file read, hand to the spatial join when reduce_data lists the
\* dispositions in the given order.
StagesInOrder(file, order) ==
    compute_time_adjusted_price(
        remove_iqr_outliers(remove_extreme_outliers(
            add_region_information(
                add_first_parcel_id(add_price_per_sqm(aggregate_dvf(file, order).table)),
                region_mapping))),
        ReferenceYear)

\* C23: the stages run in the order load, deduplication, flagging,
\* eligibility, consolidation, derived metrics, regions, outliers, time
\* normalization, spatial assignment, each once and on the table the
\* previous one left; the medians of the time normalization are those of
\* the rows that passed the hard thresholds and the fences of their
\* commune, and of no row these stages removed.
C23_StagesInOrder ==
    /\ [][ LET order == << "start", "loaded", "filled", "deduplicated", "flagged",
                          "eligible", "allocated", "reduced", "aggregated", "priced",
                          "parcelled", "regioned", "thresholded", "filtered",
                          "adjusted", "joined", "written" >>
           IN  \E n \in 1..(Len(order) - 1) :
                   /\ stage = order[n]
                   /\ stage' \in {order[n + 1], "failed"}
                   /\ (stage' = order[n + 1] /\ stage' # "written") => prev' = df
         ]_vars
    /\ [](stage = "filtered" =>
              /\ \A i \in Idx(df) : InsideThresholds(df[i])
              /\ SurvivorsInsideFences)
    /\ [](stage = "adjusted" =>
              /\ Len(df) = Len(prev)
              /\ \A i \in Idx(df) :
                    /\ InsideThresholds(prev[i])
                    /\ df[i].prix_m2_ajuste =
                           Some(RMul(prev[i].prix_m2[1], Factor(prev[i])))
              /\ raw # <<>> =>
                    \E order \in Orders(Len(aggregate_dvf(raw, [i \in Idx(raw) |-> i]).table)) :
                        df = StagesInOrder(raw, order))

\* Of the 10 sales the fences have removed the sale of 2024 at 20000 per
\* m2: the other sale of 2024, at 2000 per m2, is adjusted to the 3200 of
\* 2025 by the median 2000 of its year, and would be adjusted by the
\* median 11000 had the time normalization seen the table before the
\* fences.
C23_Witness ==
    /\ stage = "filtered"
    /\ Len(prev) = 10
    /\ Len(df) = 9
    /\ \E i \in Idx(prev) : prev[i].prix_m2 = F(20000) /\ prev[i] \notin Range(df)
    /\ \E i \in Idx(df) :
          /\ df[i].date_mutation = Some(<<2024, 3, 15>>)
          /\ compute_time_adjusted_price(df, ReferenceYear)[i].prix_m2_ajuste = F(3200)
    /\ \E i \in Idx(prev) :
          /\ prev[i].prix_m2 = F(2000)
          /\ prev[i].date_mutation = Some(<<2024, 3, 15>>)
          /\ compute_time_adjusted_price(prev, ReferenceYear)[i].prix_m2_ajuste
                 = Some(Rat(6400, 11))

\* The residential properties of the disposition of the consolidated row
\* r in the raw file: parcel, type and built surface of each.
Properties(r) ==
    { <<raw[i].id_parcelle, raw[i].type_local, raw[i].surface_reelle_bati>> :
        i \in {k \in Idx(raw) :
                  /\ raw[k].id_mutation = r.id_mutation
                  /\ raw[k].numero_disposition = r.numero_disposition
                  /\ raw[k].type_local \in {Some("Maison"), Some("Appartement")}} }

\* Those of them whose rows drop_unwanted_values keeps.
EligibleProperties(r) ==
    { <<raw[i].id_parcelle, raw[i].type_local, raw[i].surface_reelle_bati>> :
        i \in {k \in Idx(raw) :
                  /\ raw[k].id_mutation = r.id_mutation
                  /\ raw[k].numero_disposition = r.numero_disposition
                  /\ wanted(raw[k]) = T3} }

\* The sum of the built surfaces of the properties S.
RECURSIVE BuiltSurface(_)
BuiltSurface(S) ==
    IF S = {} THEN R(0)
    ELSE LET p == CHOOSE x \in S : TRUE
         IN  RAdd(p[3][1], BuiltSurface(S \ {p}))

\* C25 as stated: a disposition whose properties are repeated once per
\* land-use code of their parcel, with or without dependencies and bare
\* land, becomes one row whose surface_batie_totale is the sum of the
\* built surfaces of its houses and flats, each counted once, and whose
\* prix_m2 is valeur_fonciere divided by that sum.
C25_EachPropertyCountedOnce ==
    stage = "priced" =>
        /\ \A i, j \in Idx(df) :
              (df[i].id_mutation = df[j].id_mutation
                  /\ df[i].numero_disposition = df[j].numero_disposition) => i = j
        /\ \A j \in Idx(df) :
              /\ df[j].surface_batie_totale = Some(BuiltSurface(Properties(df[j])))
              /\ df[j].prix_m2 =
                    Some(RDiv(df[j].valeur_fonciere[1], BuiltSurface(Properties(df[j]))))

\* C25: a disposition whose properties are repeated once per land-use
\* code of their parcel, with or without dependencies and bare land,
\* becomes one row when one of its houses and flats at least passes the
\* eligibility filter and no row otherwise; the surface_batie_totale of
\* the row is the sum of the built surfaces of the houses and flats that
\* pass the filter, each counted once, and its prix_m2 is valeur_fonciere
\* divided by that sum.
C25_EligiblePropertiesCountedOnce ==
    stage = "priced" =>
        /\ \A i, j \in Idx(df) :
              (df[i].id_mutation = df[j].id_mutation
                  /\ df[i].numero_disposition = df[j].numero_disposition) => i = j
        /\ \A k \in Idx(raw) :
              wanted(raw[k]) = T3 <=>
                  \E j \in Idx(df) :
                      /\ df[j].id_mutation = raw[k].id_mutation
                      /\ df[j].numero_disposition = raw[k].numero_disposition
                      /\ <<raw[k].id_parcelle, raw[k].type_local, raw[k].surface_reelle_bati>>
                             \in EligibleProperties(df[j])
        /\ \A j \in Idx(df) :
              /\ df[j].surface_batie_totale = Some(BuiltSurface(EligibleProperties(df[j])))
              /\ df[j].prix_m2 =
                    Some(RDiv(df[j].valeur_fonciere[1],
                              BuiltSurface(EligibleProperties(df[j]))))

\* The house without latitude and the flat, each under two land-use
\* codes, sold with a dependency and bare land for 200000, make one row of
\* the 60 m2 of the flat at 10000/3 per m2.
C25_Witness ==
    /\ stage = "priced"
    /\ Len(raw) = 7
    /\ \E i \in Idx(raw) : raw[i].type_local = Some("Maison") /\ IsNull(raw[i].latitude)
    /\ \E i \in Idx(raw) : raw[i].type_local = Some("Dépendance")
    /\ \E i \in Idx(raw) : IsNull(raw[i].type_local)
    /\ Len(df) = 1
    /\ df[1].surface_batie_totale = F(60)
    /\ df[1].prix_m2 = Some(Rat(10000, 3))

\* C30: after compute_time_adjusted_price the rows of each year of a
\* (department, type) pair have the pair's target median as the median of
\* their prix_m2_ajuste, the rows of the target year keep their price, and
\* the stage leaves the rows and their prix_m2 as they were.
C30_YearMediansOnTarget ==
    stage = "adjusted" =>
        /\ Len(df) = Len(prev)
        /\ \A i \in Idx(df) :
              /\ \A c \in DOMAIN prev[i] : df[i][c] = prev[i][c]
              /\ HasFactor(prev[i]) =>
                    LET y == prev[i].date_mutation[1][1]
                    IN  /\ median(Column(Rows(df, YearRows(prev[i], y)), "prix_m2_ajuste"))
                              = Some(YearMedian(prev[i], TargetYear(prev[i])))
                        /\ y = TargetYear(prev[i]) => df[i].prix_m2_ajuste = df[i].prix_m2

\* Two sales of 2024 at 2000 and 1000 per m2, of median 1500, have been
\* adjusted to 4000 and 2000, of median 3000 as the sale of 2025, which
\* keeps its price.
C30_Witness ==
    /\ stage = "adjusted"
    /\ Len(df) = 3
    /\ \E i, j, k \in Idx(df) :
          /\ df[i].prix_m2 = F(2000) /\ df[i].prix_m2_ajuste = F(4000)
          /\ df[j].prix_m2 = F(1000) /\ df[j].prix_m2_ajuste = F(2000)
          /\ df[k].date_mutation = Some(<<2025, 1, 10>>)
          /\ df[k].prix_m2_ajuste = F(3000)

====
